---- MODULE Spec2Model ----
(***************************************************************************)
(* The 2D EnhancedRoomCanvas (canvas core) and its host RoomMapApp.        *)
(*                                                                         *)
(* One action per event handler.  React state is one variable per          *)
(* useState slot; a handler's setState calls are the primed variables of   *)
(* its action, and the effects that React runs after the handler's render  *)
(* (the tool-change effect) are part of the same action.                   *)
(*                                                                         *)
(* Screen coordinates are kept exact: a screen length is measured in       *)
(* sub-pixels of 1/SubPx pixel, so that GRID_SIZE * (zoom / 100) is the     *)
(* integer zoom sub-pixels per grid unit for every integer zoom.           *)
(*                                                                         *)
(* Spec drives the program with the mouse, the keyboard and the toolbar;   *)
(* SpecTouch drives it with fingers on the canvas, pinch zoom included.    *)
(***************************************************************************)
EXTENDS Integers, Sequences, FiniteSets, TLC

(***************************************************************************)
(* Program constants                                                       *)
(***************************************************************************)
GRID_SIZE == 20
ZoomBase == 100
MIN_ZOOM == 50
MAX_ZOOM == 200
PinchMaxZoom == 500
PinchMinZoom == 50
ZoomStep == 10
PinchSignificant == 5
CloseRadius == 30
TextHitRadius == 30
PathHitRadius == 10
MinPointDistance == 5
DoubleClickMs == 300
MinStraightDistance == 3
snapThreshold == 15
InitialOffset == 50
MinRoomPoints == 3
\* FloorPlanApp and FloorPlanCanvas
FpZoomBase == 10
FpInitialZoom == 10
WallHitRadius == 15

(***************************************************************************)
(* Bounds of the model                                                     *)
(***************************************************************************)
\* The clock of a run: the handlers that read Date.now() (a pointer-down
\* outside a pinch, a commit) read it 100 ms apart or more, and within
\* 100 * MaxEvents ms of the mount.
MaxEvents == 6
\* Fingers that can be on the canvas at once.
MaxTouches == 2
\* Points of a stroke in progress; the move that would exceed it is not taken.
MaxPath == 2

\* Sub-pixels per pixel: 100 / GRID_SIZE, so scale = zoom sub-pixels.
SubPx == ZoomBase \div GRID_SIZE

NoId == ""
NoTool == "null"

Abs(n) == IF n < 0 THEN -n ELSE n
Min2(a, b) == IF a <= b THEN a ELSE b
Max2(a, b) == IF a >= b THEN a ELSE b

Pt(px, py) == [x |-> px, y |-> py]

RECURSIVE Gcd(_, _)
Gcd(a, b) == IF b = 0 THEN Abs(a) ELSE Gcd(b, a % Abs(b))

RECURSIVE SeqFilter(_, _)
\* Array.prototype.filter keeping the elements whose id differs from id.
SeqFilter(s, id) ==
  IF s = <<>> THEN <<>>
  ELSE IF Head(s).id # id THEN <<Head(s)>> \o SeqFilter(Tail(s), id)
       ELSE SeqFilter(Tail(s), id)

Ids(s) == {s[i].id : i \in 1..Len(s)}

RECURSIVE Trim(_)
\* String.prototype.trim over a text kept as a sequence of characters.
Trim(s) ==
  IF s = <<>> THEN <<>>
  ELSE IF Head(s) = " " THEN Trim(Tail(s))
  ELSE IF s[Len(s)] = " " THEN Trim(SubSeq(s, 1, Len(s) - 1))
  ELSE s

(***************************************************************************)
(* State                                                                   *)
(***************************************************************************)
VARIABLES
  \* EnhancedRoomCanvas (useState slots)
  rooms, freehandPaths, textLabels, currentRoom, currentPath, viewOffset,
  isDrawing, actionHistory, textInput, isDraggingText, lastClickTime,
  lastClickedText, currentTool, isPinching, lastPinchDistance, lastPinchZoom,
  isRoomClosed,
  \* the isPinching that the memoized handlePointerDown closed over: the
  \* callback's dependency list leaves isPinching out, so the callback keeps
  \* the value of the last render in which one of its dependencies changed
  capturedIsPinching,
  \* RoomMapApp (host)
  activeTool, appRooms, zoom,
  \* environment: the last value read from Date.now(), the fingers on the
  \* canvas, and whether the mouse button is held down over the canvas
  now, touches, pressed,
  \* history variables: the last handler and branch taken, and what the
  \* current touch gesture has done so far
  lastOp, gestureDrew, gestureZoomed,
  \* FloorPlanCanvas (useState slots; isDrawing and viewOffset are fpIsDrawing
  \* and fpViewOffset here)
  walls, fpIsDrawing, currentWall, fpViewOffset, isPanning, lastPanPoint,
  \* FloorPlanApp (host; activeTool, walls and zoom are fpActiveTool, appWalls
  \* and fpZoom here)
  fpActiveTool, appWalls, fpZoom,
  \* the argument a function of the canvas is applied to, and what it returned
  fnInput, fnOutput,
  \* the Fabric-based EnhancedRoomCanvas: the objects on the Fabric canvas, the
  \* useState slots canvasHistory, historyIndex and mode, the historyIndex
  \* captured by each addFurniture call whose image is still loading, and
  \* whether the timer of the initial save is still to fire
  fabricObjects, canvasHistory, historyIndex, fabricMode, pendingImages,
  saveTimer

canvasVars == <<rooms, freehandPaths, textLabels, currentRoom, currentPath,
                viewOffset, isDrawing, actionHistory, textInput, isDraggingText,
                lastClickTime, lastClickedText, currentTool, isPinching,
                lastPinchDistance, lastPinchZoom, isRoomClosed>>
hostVars == <<activeTool, appRooms, zoom>>
envVars == <<now, touches, pressed>>
ghostVars == <<lastOp, gestureDrew, gestureZoomed>>
floorPlanVars == <<walls, fpIsDrawing, currentWall, fpViewOffset, isPanning,
                   lastPanPoint, fpActiveTool, appWalls, fpZoom>>
roomMapVars == <<canvasVars, capturedIsPinching, hostVars, touches, pressed,
                 ghostVars>>
fnVars == <<fnInput, fnOutput>>
fabricVars == <<fabricObjects, canvasHistory, historyIndex, fabricMode,
                pendingImages, saveTimer>>
vars == <<canvasVars, capturedIsPinching, hostVars, envVars, ghostVars,
          floorPlanVars, fnVars, fabricVars>>

\* The Fabric-based canvas after its mount effect and the render that follows
\* setFabricCanvas: an empty canvas, no history yet, the initial save due.
FabricInit ==
  /\ fabricObjects = <<>>
  /\ canvasHistory = <<>>
  /\ historyIndex = 0 - 1
  /\ fabricMode = "freehand"
  /\ pendingImages = <<>>
  /\ saveTimer = TRUE

\* The tool prop the canvas renders with is the host's activeTool.
tool == activeTool

(***************************************************************************)
(* Coordinate transform (screen lengths in sub-pixels)                     *)
(***************************************************************************)
\* getEventPoint: the event's pixel position relative to the canvas.
getEventPoint(px) == [x |-> px.x * SubPx, y |-> px.y * SubPx]

\* Math.round(v / zoom) for zoom > 0: halves round towards +infinity.
RoundDiv(v, z) == (2 * v + z) \div (2 * z)

\* Mutation of screenToGrid: the quotient is truncated (Math.floor).
screenToGrid_floor(point) ==
  [x |-> (point.x - SubPx * viewOffset.x) \div zoom,
   y |-> (point.y - SubPx * viewOffset.y) \div zoom]

screenToGrid(point) ==
  [x |-> RoundDiv(point.x - SubPx * viewOffset.x, zoom),
   y |-> RoundDiv(point.y - SubPx * viewOffset.y, zoom)]

gridToScreen(point) ==
  [x |-> point.x * zoom + SubPx * viewOffset.x,
   y |-> point.y * zoom + SubPx * viewOffset.y]

DistSq(a, b) == (a.x - b.x) * (a.x - b.x) + (a.y - b.y) * (a.y - b.y)

\* Math.sqrt(dx^2 + dy^2) < r pixels, for screen points a and b.
Within(a, b, r) == DistSq(a, b) < (r * SubPx) * (r * SubPx)

(***************************************************************************)
(* Geometry utilities                                                      *)
(***************************************************************************)
RECURSIVE ShoelaceSum(_, _)
ShoelaceSum(points, i) ==
  IF i > Len(points) THEN 0
  ELSE LET j == (i % Len(points)) + 1
       IN  points[i].x * points[j].y - points[j].x * points[i].y
           + ShoelaceSum(points, i + 1)

\* An exact half-integer n/2 as a reduced fraction.
Half(n) == IF n % 2 = 0 THEN [num |-> n \div 2, den |-> 1]
           ELSE [num |-> n, den |-> 2]

\* Mutation of calculateArea: the sum is halved with its sign.
calculateArea_signed(points) ==
  IF Len(points) < MinRoomPoints THEN Half(0)
  ELSE Half(ShoelaceSum(points, 1))

\* Mutation of calculateArea: the edge from the last point back to the first
\* is left out of the sum.
calculateArea_openPath(points) ==
  IF Len(points) < MinRoomPoints THEN Half(0)
  ELSE Half(Abs(ShoelaceSum(points, 1)
                - (points[Len(points)].x * points[1].y
                   - points[1].x * points[Len(points)].y)))

calculateArea(points) ==
  IF Len(points) < MinRoomPoints THEN Half(0)
  ELSE Half(Abs(ShoelaceSum(points, 1)))

(***************************************************************************)
(* Freehand straightening                                                  *)
(*                                                                         *)
(* A straightened end point start + dist * (cos a, sin a) is irrational in *)
(* general.  It is kept exactly, as [x, y, r2, a]: the point at distance   *)
(* sqrt(r2) from (x, y) in direction a degrees; when that point is a grid  *)
(* point it is kept as the plain point [x, y].                             *)
(***************************************************************************)
snapAngles == <<0, 45, 90, 135, 180, 225, 270, 315>>

RECURSIVE Isqrt(_, _)
\* The largest w >= from with w * w <= n.
Isqrt(n, from) == IF (from + 1) * (from + 1) > n THEN from ELSE Isqrt(n, from + 1)

RECURSIVE Rot45(_, _)
\* v turned by -45 degrees k times (each turn also scales by sqrt 2).
Rot45(v, k) == IF k = 0 THEN v ELSE Rot45([x |-> v.x + v.y, y |-> v.y - v.x], k - 1)

\* The unit vector of snap angle number k, as <<cx, cy>> / sqrt(cn).
SnapDir(k) ==
  LET dirs == << <<1, 0, 1>>, <<1, 1, 2>>, <<0, 1, 1>>, <<-1, 1, 2>>,
                 <<-1, 0, 1>>, <<-1, -1, 2>>, <<0, -1, 1>>, <<1, -1, 2>> >>
  IN  [cx |-> dirs[k][1], cy |-> dirs[k][2], cn |-> dirs[k][3]]

\* angleDiff <= snapThreshold for the direction v and snap angle number k,
\* for the snapThreshold of 15 degrees: with (a, b) = v turned back by the
\* snap angle, |b| <= tan(15 deg) * a, and tan(15 deg) = 2 - sqrt 3.
WithinSnap(v, k) ==
  LET w == Rot45(v, k - 1)
      a == w.x
      b == Abs(w.y)
  IN  a > 0 /\ 2 * a - b >= 0 /\ (2 * a - b) * (2 * a - b) >= 3 * a * a

\* start + sqrt(r2) * (direction of snap angle number k)
SnappedEnd(start, r2, k) ==
  LET d == SnapDir(k)
      q == r2 \div d.cn
      w == Isqrt(q, 0)
  IN  IF r2 % d.cn = 0 /\ w * w = q
      THEN [x |-> start.x + w * d.cx, y |-> start.y + w * d.cy]
      ELSE [x |-> start.x, y |-> start.y, r2 |-> r2, a |-> snapAngles[k]]

\* Mutation of straightenLine: no stroke is too short to straighten.
straightenLine_noMinimum(points) ==
  IF Len(points) < 2 THEN points
  ELSE
    LET start == points[1]
        end == points[Len(points)]
        v == [x |-> end.x - start.x, y |-> end.y - start.y]
        r2 == DistSq(start, end)
        hits == {k \in 1..Len(snapAngles) : WithinSnap(v, k)}
    IN  IF hits = {} THEN points
        ELSE LET k == CHOOSE h \in hits : \A g \in hits : h <= g
             IN  <<start, SnappedEnd(start, r2, k)>>

straightenLine(points) ==
  IF Len(points) < 2 THEN points
  ELSE
    LET start == points[1]
        end == points[Len(points)]
        v == [x |-> end.x - start.x, y |-> end.y - start.y]
        r2 == DistSq(start, end)
        hits == {k \in 1..Len(snapAngles) : WithinSnap(v, k)}
    IN  IF r2 < MinStraightDistance * MinStraightDistance THEN points
        ELSE IF hits = {} THEN points
        ELSE LET k == CHOOSE h \in hits : \A g \in hits : h <= g
             IN  <<start, SnappedEnd(start, r2, k)>>

\* Index of angle a in snapAngles.
SnapIndex(a) == CHOOSE k \in 1..Len(snapAngles) : snapAngles[k] = a

\* a < b * sqrt(n / c) for integers a, b and n >= 0, c > 0.
LessRoot(a, b, n, c) ==
  IF n = 0 THEN a < 0
  ELSE IF b > 0 THEN a < 0 \/ c * a * a < b * b * n
  ELSE a < 0 /\ c * a * a > b * b * n

\* The screen distance from point to gridToScreen(pp) is below r pixels,
\* for a path point pp that may be a kept-exact straightened end.
PathPointWithin(point, pp, r) ==
  IF "r2" \notin DOMAIN pp THEN Within(point, gridToScreen(pp), r)
  ELSE
    LET d == SnapDir(SnapIndex(pp.a))
        base == gridToScreen([x |-> pp.x, y |-> pp.y])
        g == Gcd(Gcd(point.x - base.x, point.y - base.y), Gcd(zoom, r * SubPx))
        u == (point.x - base.x) \div g
        v == (point.y - base.y) \div g
        s == zoom \div g
        rr == (r * SubPx) \div g
    IN  LessRoot(u * u + v * v + s * s * pp.r2 - rr * rr,
                 2 * s * (u * d.cx + v * d.cy), pp.r2, d.cn)

(***************************************************************************)
(* Hit testing                                                             *)
(***************************************************************************)
\* One edge (i, j) of the ray cast toggles inside.
Crosses(point, pi, pj) ==
  /\ (pi.y > point.y) # (pj.y > point.y)
  /\ LET d == pj.y - pi.y
         lhs == (point.x - pi.x) * d
         rhs == (pj.x - pi.x) * (point.y - pi.y)
     IN  IF d > 0 THEN lhs < rhs ELSE lhs > rhs

\* Mutation of isPointInRoom: any crossing of the ray counts as inside.
isPointInRoom_anyCrossing(point, room) ==
  LET n == Len(room.points)
      sp(i) == gridToScreen(room.points[i])
      prev(i) == IF i = 1 THEN n ELSE i - 1
      crossings == {i \in 1..n : Crosses(point, sp(i), sp(prev(i)))}
  IN  crossings # {}

isPointInRoom(point, room) ==
  LET n == Len(room.points)
      sp(i) == gridToScreen(room.points[i])
      prev(i) == IF i = 1 THEN n ELSE i - 1
      crossings == {i \in 1..n : Crosses(point, sp(i), sp(prev(i)))}
  IN  Cardinality(crossings) % 2 = 1

NoElement == [type |-> "none", id |-> NoId, idx |-> 0]

\* Mutation of findElementAtPoint: rooms are tested before text labels.
findElementAtPoint_roomsFirst(point) ==
  LET labelHits == {i \in 1..Len(textLabels) :
                      Within(point, gridToScreen(textLabels[i].position), TextHitRadius)}
      roomHits == {i \in 1..Len(rooms) : isPointInRoom(point, rooms[i])}
      pathHits == {i \in 1..Len(freehandPaths) :
                     \E j \in 1..Len(freehandPaths[i].points) :
                       PathPointWithin(point, freehandPaths[i].points[j], PathHitRadius)}
      first(S) == CHOOSE i \in S : \A k \in S : i <= k
  IN  IF roomHits # {}
      THEN [type |-> "room", id |-> rooms[first(roomHits)].id, idx |-> first(roomHits)]
      ELSE IF labelHits # {}
      THEN [type |-> "text", id |-> textLabels[first(labelHits)].id, idx |-> first(labelHits)]
      ELSE IF pathHits # {}
      THEN [type |-> "freehand", id |-> freehandPaths[first(pathHits)].id, idx |-> first(pathHits)]
      ELSE NoElement

findElementAtPoint(point) ==
  LET labelHits == {i \in 1..Len(textLabels) :
                      Within(point, gridToScreen(textLabels[i].position), TextHitRadius)}
      roomHits == {i \in 1..Len(rooms) : isPointInRoom(point, rooms[i])}
      pathHits == {i \in 1..Len(freehandPaths) :
                     \E j \in 1..Len(freehandPaths[i].points) :
                       PathPointWithin(point, freehandPaths[i].points[j], PathHitRadius)}
      first(S) == CHOOSE i \in S : \A k \in S : i <= k
  IN  IF labelHits # {}
      THEN [type |-> "text", id |-> textLabels[first(labelHits)].id, idx |-> first(labelHits)]
      ELSE IF roomHits # {}
      THEN [type |-> "room", id |-> rooms[first(roomHits)].id, idx |-> first(roomHits)]
      ELSE IF pathHits # {}
      THEN [type |-> "freehand", id |-> freehandPaths[first(pathHits)].id, idx |-> first(pathHits)]
      ELSE NoElement

(***************************************************************************)
(* Initial state: after mount, once the mount effects have run             *)
(***************************************************************************)
\* lastOp names the handler that ran last when it was an undo that popped an
\* entry, clear, a Done that committed, a room-closing click or an export,
\* with the branch it took; a handler that returns early leaves it alone.
Op(name, branch) == [name |-> name, branch |-> branch]
OtherOp == Op("other", "")

Init ==
  /\ rooms = <<>> /\ freehandPaths = <<>> /\ textLabels = <<>>
  /\ currentRoom = <<>> /\ currentPath = <<>>
  /\ viewOffset = [x |-> InitialOffset, y |-> InitialOffset]
  /\ isDrawing = FALSE
  /\ actionHistory = <<>>
  /\ textInput = <<>>
  /\ isDraggingText = <<>>
  /\ lastClickTime = 0
  /\ lastClickedText = NoId
  /\ currentTool = "freehand"
  /\ isPinching = FALSE
  /\ lastPinchDistance = 0
  /\ lastPinchZoom = ZoomBase
  /\ isRoomClosed = FALSE
  /\ capturedIsPinching = FALSE
  /\ activeTool = "freehand"
  /\ appRooms = <<>>
  /\ zoom = ZoomBase
  /\ now = DoubleClickMs
  /\ touches = 0
  /\ pressed = FALSE
  /\ lastOp = Op("mount", "")
  /\ gestureDrew = FALSE
  /\ gestureZoomed = FALSE
  /\ walls = <<>>
  /\ fpIsDrawing = FALSE
  /\ currentWall = <<>>
  /\ fpViewOffset = [x |-> 0, y |-> 0]
  /\ isPanning = FALSE
  /\ lastPanPoint = <<>>
  /\ fpActiveTool = "wall"
  /\ appWalls = <<>>
  /\ fpZoom = FpInitialZoom
  /\ FabricInit
  /\ fnInput = <<>>
  /\ fnOutput = <<>>

\* now is the last value read from Date.now(); a handler that reads it dt
\* milliseconds later takes Tick(dt), one that returns before reading it
\* leaves now alone.
MaxNow == DoubleClickMs + 100 * MaxEvents
Tick(dt) == now + dt <= MaxNow /\ now' = now + dt

(***************************************************************************)
(* Host callbacks                                                          *)
(***************************************************************************)
\* RoomMapApp.handleRoomsChange, the canvas's onRoomsChange prop
handleRoomsChange(newRooms) == appRooms' = newRooms

\* RoomMapApp.handleZoomChange, the canvas's onZoomChange prop
handleZoomChange(newZoom) ==
  zoom' = Max2(MIN_ZOOM, Min2(newZoom, (MAX_ZOOM * 5) \div 2))

(***************************************************************************)
(* handlePointerDown                                                       *)
(***************************************************************************)
\* Mutation of roomToolClick: the closing click also adds its vertex.
roomToolClick_appendsOnClose(point, gridPos) ==
  IF /\ Len(currentRoom) >= MinRoomPoints
     /\ Within(point, gridToScreen(currentRoom[1]), CloseRadius)
  THEN
    /\ isRoomClosed' = TRUE
    /\ lastOp' = Op("pointerDown", "closeRoom")
    /\ currentRoom' = Append(currentRoom, gridPos)
  ELSE
    /\ currentRoom' = Append(currentRoom, gridPos)
    /\ lastOp' = OtherOp
    /\ UNCHANGED isRoomClosed

\* The room branch of handlePointerDown: a click near the first vertex of a
\* draft of three or more closes it, any other click adds a vertex.
roomToolClick(point, gridPos) ==
  IF /\ Len(currentRoom) >= MinRoomPoints
     /\ Within(point, gridToScreen(currentRoom[1]), CloseRadius)
  THEN
    /\ isRoomClosed' = TRUE
    /\ lastOp' = Op("pointerDown", "closeRoom")
    /\ UNCHANGED currentRoom
  ELSE
    /\ currentRoom' = Append(currentRoom, gridPos)
    /\ lastOp' = OtherOp
    /\ UNCHANGED isRoomClosed

\* touchesLen is e.touches.length of a touch event and 0 for a mouse event;
\* px is the pixel position of the mouse or of the first finger; distance is
\* getTouchDistance(e.touches) when two fingers are down.
handlePointerDown(touchesLen, px, distance, dt) ==
  LET point == getEventPoint(px)
      gridPos == screenToGrid(point)
      currentTime == now + dt
      clickedElement == findElementAtPoint(point)
  IN
  /\ UNCHANGED <<viewOffset, actionHistory, currentTool, hostVars>>
  /\ IF touchesLen = 2 \/ capturedIsPinching THEN UNCHANGED now ELSE Tick(dt)
  /\ IF touchesLen = 2 THEN
       /\ isPinching' = TRUE
       /\ lastPinchDistance' = distance
       /\ lastPinchZoom' = zoom
       /\ lastOp' = OtherOp
       /\ UNCHANGED <<rooms, freehandPaths, textLabels, currentRoom, currentPath,
                      isDrawing, textInput, isDraggingText, lastClickTime,
                      lastClickedText, isRoomClosed>>
     ELSE IF capturedIsPinching THEN
       /\ lastOp' = OtherOp
       /\ UNCHANGED <<rooms, freehandPaths, textLabels, currentRoom, currentPath,
                      isDrawing, textInput, isDraggingText, lastClickTime,
                      lastClickedText, isPinching, lastPinchDistance,
                      lastPinchZoom, isRoomClosed>>
     ELSE IF clickedElement.type = "text" THEN
       LET textLabel == textLabels[clickedElement.idx]
           isDoubleClick == /\ currentTime - lastClickTime < DoubleClickMs
                            /\ lastClickedText = clickedElement.id
           screenPos == gridToScreen(textLabel.position)
       IN
       /\ IF isDoubleClick THEN
            /\ textInput' = <<[position |-> textLabel.position,
                               value |-> textLabel.text,
                               isEditing |-> TRUE,
                               editingId |-> textLabel.id]>>
            /\ lastClickTime' = 0
            /\ lastClickedText' = NoId
            /\ lastOp' = OtherOp
            /\ UNCHANGED isDraggingText
          ELSE
            /\ isDraggingText' = <<[id |-> textLabel.id,
                                    offset |-> [x |-> point.x - screenPos.x,
                                                y |-> point.y - screenPos.y]]>>
            /\ lastClickTime' = currentTime
            /\ lastClickedText' = clickedElement.id
            /\ lastOp' = OtherOp
            /\ UNCHANGED textInput
       /\ UNCHANGED <<rooms, freehandPaths, textLabels, currentRoom, currentPath,
                      isDrawing, isPinching, lastPinchDistance, lastPinchZoom,
                      isRoomClosed>>
     ELSE
       /\ lastClickTime' = currentTime
       /\ lastClickedText' = NoId
       /\ UNCHANGED <<isDraggingText, isPinching, lastPinchDistance, lastPinchZoom>>
       /\ IF tool = "room" THEN
            /\ roomToolClick(point, gridPos)
            /\ UNCHANGED <<rooms, freehandPaths, textLabels, currentPath,
                           isDrawing, textInput>>
          ELSE IF tool = "freehand" /\ ~capturedIsPinching THEN
            /\ isDrawing' = TRUE
            /\ currentPath' = <<gridPos>>
            /\ lastOp' = OtherOp
            /\ UNCHANGED <<rooms, freehandPaths, textLabels, currentRoom,
                           textInput, isRoomClosed>>
          ELSE IF tool = "label" THEN
            /\ textInput' = <<[position |-> gridPos, value |-> <<>>,
                               isEditing |-> TRUE, editingId |-> NoId]>>
            /\ lastOp' = OtherOp
            /\ UNCHANGED <<rooms, freehandPaths, textLabels, currentRoom,
                           currentPath, isDrawing, isRoomClosed>>
          ELSE IF tool = "erase" THEN
            LET element == findElementAtPoint(point)
            IN
            /\ rooms' = IF element.type = "room"
                        THEN SeqFilter(rooms, element.id) ELSE rooms
            /\ freehandPaths' = IF element.type = "freehand"
                                THEN SeqFilter(freehandPaths, element.id)
                                ELSE freehandPaths
            /\ textLabels' = IF element.type = "text"
                             THEN SeqFilter(textLabels, element.id)
                             ELSE textLabels
            /\ lastOp' = OtherOp
            /\ UNCHANGED <<currentRoom, currentPath, isDrawing, textInput,
                           isRoomClosed>>
          ELSE
            /\ lastOp' = OtherOp
            /\ UNCHANGED <<rooms, freehandPaths, textLabels, currentRoom,
                           currentPath, isDrawing, textInput, isRoomClosed>>

(***************************************************************************)
(* handlePointerMove                                                       *)
(***************************************************************************)
\* lastPinchZoom * (distance / lastPinchDistance) clamped to the pinch range.
\* The quotient is real; the model takes the moves for which it is an
\* integer (or is clamped), see PinchExact.
PinchNewZoom(distance) ==
  LET num == lastPinchZoom * distance
      den == lastPinchDistance
  IN  IF num >= PinchMaxZoom * den THEN PinchMaxZoom
      ELSE IF num <= PinchMinZoom * den THEN PinchMinZoom
      ELSE num \div den

PinchExact(distance) ==
  \/ lastPinchDistance = 0
  \/ lastPinchZoom * distance >= PinchMaxZoom * lastPinchDistance
  \/ lastPinchZoom * distance <= PinchMinZoom * lastPinchDistance
  \/ (lastPinchZoom * distance) % lastPinchDistance = 0

\* The functional update of setCurrentPath in the freehand branch.
\* Mutation of AppendPathPoint: every move appends a point.
AppendPathPoint_unthrottled(prev, point, gridPos) == Append(prev, gridPos)

AppendPathPoint(prev, point, gridPos) ==
  IF /\ Len(prev) > 0
     /\ Within(point, gridToScreen(prev[Len(prev)]), MinPointDistance)
  THEN prev
  ELSE Append(prev, gridPos)

RECURSIVE MoveLabel(_, _, _)
\* prev.map(label => label.id === id ? {...label, position} : label)
MoveLabel(labels, id, position) ==
  IF labels = <<>> THEN <<>>
  ELSE <<IF Head(labels).id = id
         THEN [Head(labels) EXCEPT !.position = position]
         ELSE Head(labels)>> \o MoveLabel(Tail(labels), id, position)

handlePointerMove(touchesLen, px, distance) ==
  LET point == getEventPoint(px)
      gridPos == screenToGrid(point)
  IN
  /\ UNCHANGED <<rooms, freehandPaths, currentRoom, viewOffset, isDrawing,
                 actionHistory, textInput, isDraggingText, lastClickTime,
                 lastClickedText, currentTool, isPinching, lastPinchDistance,
                 isRoomClosed, activeTool, appRooms, now>>
  /\ IF isDraggingText # <<>> THEN
       LET drag == isDraggingText[1]
           newGridPos == screenToGrid([x |-> point.x - drag.offset.x,
                                       y |-> point.y - drag.offset.y])
       IN
       /\ textLabels' = MoveLabel(textLabels, drag.id, newGridPos)
       /\ lastOp' = OtherOp
       /\ UNCHANGED <<currentPath, lastPinchZoom, zoom>>
     ELSE IF touchesLen = 2 /\ isPinching THEN
       /\ PinchExact(distance)
       /\ IF /\ lastPinchDistance > 0
             /\ Abs(PinchNewZoom(distance) - zoom) > PinchSignificant
          THEN /\ handleZoomChange(PinchNewZoom(distance))
               /\ lastPinchZoom' = PinchNewZoom(distance)
               /\ lastOp' = OtherOp
          ELSE /\ lastOp' = OtherOp
               /\ UNCHANGED <<lastPinchZoom, zoom>>
       /\ UNCHANGED <<textLabels, currentPath>>
     ELSE
       /\ IF tool = "freehand" /\ isDrawing /\ ~isPinching
          THEN /\ currentPath' = AppendPathPoint(currentPath, point, gridPos)
               /\ lastOp' = OtherOp
          ELSE /\ lastOp' = OtherOp
               /\ UNCHANGED currentPath
       /\ UNCHANGED <<textLabels, lastPinchZoom, zoom>>

(***************************************************************************)
(* handlePointerUp                                                         *)
(***************************************************************************)
handlePointerUp(dt) ==
  /\ UNCHANGED <<rooms, textLabels, currentRoom, viewOffset, textInput,
                 lastClickTime, lastClickedText, currentTool, lastPinchZoom,
                 isRoomClosed, hostVars>>
  /\ IF isDraggingText # <<>> THEN
       /\ isDraggingText' = <<>>
       /\ lastOp' = OtherOp
       /\ UNCHANGED <<freehandPaths, currentPath, isDrawing, actionHistory,
                      isPinching, lastPinchDistance, now>>
     ELSE IF isPinching THEN
       /\ isPinching' = FALSE
       /\ lastPinchDistance' = 0
       /\ lastOp' = OtherOp
       /\ UNCHANGED <<freehandPaths, currentPath, isDrawing, actionHistory,
                      isDraggingText, now>>
     ELSE
       /\ IF tool = "freehand" /\ isDrawing /\ Len(currentPath) > 1 THEN
            LET newPath == [id |-> ToString(now + dt),
                            points |-> straightenLine(currentPath)]
            IN
            /\ freehandPaths' = Append(freehandPaths, newPath)
            /\ currentPath' = <<>>
            /\ actionHistory' = Append(actionHistory,
                                       [type |-> "freehand", data |-> newPath])
            /\ lastOp' = OtherOp
            /\ Tick(dt)
          ELSE
            /\ lastOp' = OtherOp
            /\ UNCHANGED <<freehandPaths, currentPath, actionHistory, now>>
       /\ isDrawing' = FALSE
       /\ UNCHANGED <<isDraggingText, isPinching, lastPinchDistance>>

\* onMouseLeave and onTouchCancel of the canvas element
handlePointerLeave ==
  /\ isDrawing' = FALSE
  /\ lastOp' = OtherOp
  /\ UNCHANGED <<rooms, freehandPaths, textLabels, currentRoom, currentPath,
                 viewOffset, actionHistory, textInput, isDraggingText,
                 lastClickTime, lastClickedText, currentTool, isPinching,
                 lastPinchDistance, lastPinchZoom, isRoomClosed, hostVars, now>>

(***************************************************************************)
(* Room completion (the Done button)                                       *)
(***************************************************************************)
\* Mutation of handleRoomComplete: a draft that is not closed is committed too.
handleRoomComplete_ignoresClosed(dt) ==
  /\ UNCHANGED <<freehandPaths, textLabels, currentPath, viewOffset, isDrawing,
                 textInput, isDraggingText, lastClickTime, lastClickedText,
                 currentTool, isPinching, lastPinchDistance, lastPinchZoom,
                 activeTool, zoom>>
  /\ IF Len(currentRoom) < MinRoomPoints THEN
       /\ UNCHANGED <<lastOp, rooms, currentRoom, isRoomClosed, actionHistory, appRooms, now>>
     ELSE
       LET newRoom == [id |-> ToString(now + dt),
                       points |-> currentRoom,
                       area |-> calculateArea(currentRoom)]
           newRooms == Append(rooms, newRoom)
       IN
       /\ rooms' = newRooms
       /\ handleRoomsChange(newRooms)
       /\ currentRoom' = <<>>
       /\ isRoomClosed' = FALSE
       /\ actionHistory' = Append(actionHistory, [type |-> "room", data |-> newRoom])
       /\ lastOp' = Op("roomComplete", "commit")
       /\ Tick(dt)

\* Mutation of handleRoomComplete: the area leaves out the last vertex.
handleRoomComplete_areaWithoutLast(dt) ==
  /\ UNCHANGED <<freehandPaths, textLabels, currentPath, viewOffset, isDrawing,
                 textInput, isDraggingText, lastClickTime, lastClickedText,
                 currentTool, isPinching, lastPinchDistance, lastPinchZoom,
                 activeTool, zoom>>
  /\ IF Len(currentRoom) < MinRoomPoints \/ ~isRoomClosed THEN
       /\ UNCHANGED <<lastOp, rooms, currentRoom, isRoomClosed, actionHistory, appRooms, now>>
     ELSE
       LET newRoom == [id |-> ToString(now + dt),
                       points |-> currentRoom,
                       area |-> calculateArea(SubSeq(currentRoom, 1, Len(currentRoom) - 1))]
           newRooms == Append(rooms, newRoom)
       IN
       /\ rooms' = newRooms
       /\ handleRoomsChange(newRooms)
       /\ currentRoom' = <<>>
       /\ isRoomClosed' = FALSE
       /\ actionHistory' = Append(actionHistory, [type |-> "room", data |-> newRoom])
       /\ lastOp' = Op("roomComplete", "commit")
       /\ Tick(dt)

handleRoomComplete(dt) ==
  /\ UNCHANGED <<freehandPaths, textLabels, currentPath, viewOffset, isDrawing,
                 textInput, isDraggingText, lastClickTime, lastClickedText,
                 currentTool, isPinching, lastPinchDistance, lastPinchZoom,
                 activeTool, zoom>>
  /\ IF Len(currentRoom) < MinRoomPoints \/ ~isRoomClosed THEN
       /\ UNCHANGED <<lastOp, rooms, currentRoom, isRoomClosed, actionHistory, appRooms, now>>
     ELSE
       LET newRoom == [id |-> ToString(now + dt),
                       points |-> currentRoom,
                       area |-> calculateArea(currentRoom)]
           newRooms == Append(rooms, newRoom)
       IN
       /\ rooms' = newRooms
       /\ handleRoomsChange(newRooms)
       /\ currentRoom' = <<>>
       /\ isRoomClosed' = FALSE
       /\ actionHistory' = Append(actionHistory, [type |-> "room", data |-> newRoom])
       /\ lastOp' = Op("roomComplete", "commit")
       /\ Tick(dt)

(***************************************************************************)
(* Text input                                                              *)
(***************************************************************************)
RECURSIVE SetLabelText(_, _, _)
\* prev.map(label => label.id === id ? {...label, text} : label)
SetLabelText(labels, id, text) ==
  IF labels = <<>> THEN <<>>
  ELSE <<IF Head(labels).id = id
         THEN [Head(labels) EXCEPT !.text = text]
         ELSE Head(labels)>> \o SetLabelText(Tail(labels), id, text)

\* Mutation of handleTextSubmit: an edited label is added as a new label.
handleTextSubmit_appendsOnEdit(dt) ==
  /\ UNCHANGED <<rooms, freehandPaths, currentRoom, currentPath, viewOffset,
                 isDrawing, isDraggingText, lastClickTime, lastClickedText,
                 currentTool, isPinching, lastPinchDistance, lastPinchZoom,
                 isRoomClosed, hostVars>>
  /\ textInput' = <<>>
  /\ IF textInput = <<>> \/ Trim(textInput[1].value) = <<>> THEN
       /\ lastOp' = OtherOp
       /\ UNCHANGED <<textLabels, actionHistory, now>>
     ELSE
       LET newLabel == [id |-> ToString(now + dt),
                        position |-> textInput[1].position,
                        text |-> textInput[1].value]
       IN
       /\ textLabels' = Append(textLabels, newLabel)
       /\ actionHistory' = Append(actionHistory, [type |-> "text", data |-> newLabel])
       /\ lastOp' = OtherOp
       /\ Tick(dt)

handleTextSubmit(dt) ==
  /\ UNCHANGED <<rooms, freehandPaths, currentRoom, currentPath, viewOffset,
                 isDrawing, isDraggingText, lastClickTime, lastClickedText,
                 currentTool, isPinching, lastPinchDistance, lastPinchZoom,
                 isRoomClosed, hostVars>>
  /\ textInput' = <<>>
  /\ IF textInput = <<>> \/ Trim(textInput[1].value) = <<>> THEN
       /\ lastOp' = OtherOp
       /\ UNCHANGED <<textLabels, actionHistory, now>>
     ELSE IF textInput[1].editingId # NoId THEN
       /\ textLabels' = SetLabelText(textLabels, textInput[1].editingId,
                                     textInput[1].value)
       /\ lastOp' = OtherOp
       /\ UNCHANGED <<actionHistory, now>>
     ELSE
       LET newLabel == [id |-> ToString(now + dt),
                        position |-> textInput[1].position,
                        text |-> textInput[1].value]
       IN
       /\ textLabels' = Append(textLabels, newLabel)
       /\ actionHistory' = Append(actionHistory, [type |-> "text", data |-> newLabel])
       /\ lastOp' = OtherOp
       /\ Tick(dt)

handleTextDelete ==
  /\ UNCHANGED <<rooms, freehandPaths, currentRoom, currentPath, viewOffset,
                 isDrawing, actionHistory, isDraggingText, lastClickTime,
                 lastClickedText, currentTool, isPinching, lastPinchDistance,
                 lastPinchZoom, isRoomClosed, hostVars, now>>
  /\ IF textInput # <<>> /\ textInput[1].editingId # NoId THEN
       /\ textLabels' = SeqFilter(textLabels, textInput[1].editingId)
       /\ textInput' = <<>>
       /\ lastOp' = OtherOp
     ELSE
       /\ lastOp' = OtherOp
       /\ UNCHANGED <<textLabels, textInput>>

\* The Input's onChange: setTextInput(prev => prev ? {...prev, value} : null)
handleTextChange(value) ==
  /\ textInput' = IF textInput # <<>>
                  THEN <<[textInput[1] EXCEPT !.value = value]>>
                  ELSE <<>>
  /\ lastOp' = OtherOp
  /\ UNCHANGED <<rooms, freehandPaths, textLabels, currentRoom, currentPath,
                 viewOffset, isDrawing, actionHistory, isDraggingText,
                 lastClickTime, lastClickedText, currentTool, isPinching,
                 lastPinchDistance, lastPinchZoom, isRoomClosed, hostVars, now>>

\* Escape in the Input, or the cancel button: setTextInput(null)
handleTextCancel ==
  /\ textInput' = <<>>
  /\ lastOp' = OtherOp
  /\ UNCHANGED <<rooms, freehandPaths, textLabels, currentRoom, currentPath,
                 viewOffset, isDrawing, actionHistory, isDraggingText,
                 lastClickTime, lastClickedText, currentTool, isPinching,
                 lastPinchDistance, lastPinchZoom, isRoomClosed, hostVars, now>>

(***************************************************************************)
(* Undo, clear                                                             *)
(***************************************************************************)
\* Mutation of handleUndo: the oldest entry is popped instead of the newest.
handleUndo_popsOldest ==
  /\ UNCHANGED <<currentRoom, currentPath, viewOffset, isDrawing, textInput,
                 isDraggingText, lastClickTime, lastClickedText, currentTool,
                 isPinching, lastPinchDistance, lastPinchZoom, isRoomClosed,
                 hostVars, now>>
  /\ IF Len(actionHistory) = 0 THEN
       /\ UNCHANGED <<lastOp, rooms, freehandPaths, textLabels, actionHistory>>
     ELSE
       LET lastAction == actionHistory[1]
       IN
       /\ rooms' = IF lastAction.type = "room"
                   THEN SeqFilter(rooms, lastAction.data.id) ELSE rooms
       /\ freehandPaths' = IF lastAction.type = "freehand"
                           THEN SeqFilter(freehandPaths, lastAction.data.id)
                           ELSE freehandPaths
       /\ textLabels' = IF lastAction.type = "text"
                        THEN SeqFilter(textLabels, lastAction.data.id)
                        ELSE textLabels
       /\ actionHistory' = Tail(actionHistory)
       /\ lastOp' = Op("undo", lastAction.type)

\* RoomMapApp.handleUndo calls window.roomCanvasUndo, the canvas's handleUndo.
handleUndo ==
  /\ UNCHANGED <<currentRoom, currentPath, viewOffset, isDrawing, textInput,
                 isDraggingText, lastClickTime, lastClickedText, currentTool,
                 isPinching, lastPinchDistance, lastPinchZoom, isRoomClosed,
                 hostVars, now>>
  /\ IF Len(actionHistory) = 0 THEN
       /\ UNCHANGED <<lastOp, rooms, freehandPaths, textLabels, actionHistory>>
     ELSE
       LET lastAction == actionHistory[Len(actionHistory)]
       IN
       /\ rooms' = IF lastAction.type = "room"
                   THEN SeqFilter(rooms, lastAction.data.id) ELSE rooms
       /\ freehandPaths' = IF lastAction.type = "freehand"
                           THEN SeqFilter(freehandPaths, lastAction.data.id)
                           ELSE freehandPaths
       /\ textLabels' = IF lastAction.type = "text"
                        THEN SeqFilter(textLabels, lastAction.data.id)
                        ELSE textLabels
       /\ actionHistory' = SubSeq(actionHistory, 1, Len(actionHistory) - 1)
       /\ lastOp' = Op("undo", lastAction.type)

\* Mutation of canvasClear: the undo log is kept.
canvasClear_keepsHistory ==
  /\ rooms' = <<>>
  /\ freehandPaths' = <<>>
  /\ textLabels' = <<>>
  /\ currentRoom' = <<>>
  /\ currentPath' = <<>>
  /\ actionHistory' = actionHistory
  /\ textInput' = <<>>
  /\ isRoomClosed' = FALSE

\* The canvas's handleClear, reached through window.roomCanvasClear.
canvasClear ==
  /\ rooms' = <<>>
  /\ freehandPaths' = <<>>
  /\ textLabels' = <<>>
  /\ currentRoom' = <<>>
  /\ currentPath' = <<>>
  /\ actionHistory' = <<>>
  /\ textInput' = <<>>
  /\ isRoomClosed' = FALSE

\* RoomMapApp.handleClear: the canvas's clear (which reports [] through
\* onRoomsChange), then setRooms([]).
handleClear ==
  /\ canvasClear
  /\ handleRoomsChange(<<>>)
  /\ lastOp' = Op("clear", IF Len(rooms) + Len(freehandPaths) + Len(textLabels) > 0
                            THEN "content" ELSE "empty")
  /\ UNCHANGED <<viewOffset, isDrawing, isDraggingText, lastClickTime,
                 lastClickedText, currentTool, isPinching, lastPinchDistance,
                 lastPinchZoom, activeTool, zoom, now>>

(***************************************************************************)
(* Tool change and zoom controls                                           *)
(***************************************************************************)
\* The toolbar's onToolChange(activeTool === id ? null : id), followed by the
\* canvas's tool-change effect of the render it causes.
handleToolChange(id) ==
  LET newTool == IF activeTool = id THEN NoTool ELSE id
      changed == newTool # currentTool
      leftRoom == changed /\ currentTool = "room" /\ newTool # "room"
      leftFreehand == changed /\ currentTool = "freehand" /\ newTool # "freehand"
  IN
  /\ activeTool' = newTool
  /\ currentRoom' = IF leftRoom THEN <<>> ELSE currentRoom
  /\ isRoomClosed' = IF leftRoom THEN FALSE ELSE isRoomClosed
  /\ currentPath' = IF leftFreehand THEN <<>> ELSE currentPath
  /\ isDrawing' = IF leftFreehand THEN FALSE ELSE isDrawing
  /\ currentTool' = IF changed THEN newTool ELSE currentTool
  /\ lastOp' = OtherOp
  /\ UNCHANGED <<rooms, freehandPaths, textLabels, viewOffset, actionHistory,
                 textInput, isDraggingText, lastClickTime, lastClickedText,
                 isPinching, lastPinchDistance, lastPinchZoom, appRooms, zoom,
                 now>>

\* Mutation of handleZoomIn: the step is added without the upper limit.
handleZoomIn_uncapped ==
  /\ zoom' = zoom + ZoomStep
  /\ lastOp' = OtherOp
  /\ UNCHANGED <<canvasVars, activeTool, appRooms, now>>

handleZoomIn ==
  /\ zoom' = Min2(zoom + ZoomStep, MAX_ZOOM)
  /\ lastOp' = OtherOp
  /\ UNCHANGED <<canvasVars, activeTool, appRooms, now>>

handleZoomOut ==
  /\ zoom' = Max2(zoom - ZoomStep, MIN_ZOOM)
  /\ lastOp' = OtherOp
  /\ UNCHANGED <<canvasVars, activeTool, appRooms, now>>

(***************************************************************************)
(* Export                                                                  *)
(***************************************************************************)
\* hasContent: a room of three or more points, a stroke of two or more
\* points, or a label.
hasContent ==
  \/ \E i \in DOMAIN rooms : Len(rooms[i].points) >= MinRoomPoints
  \/ \E i \in DOMAIN freehandPaths : Len(freehandPaths[i].points) >= 2
  \/ textLabels # <<>>

\* Mutation of handleExport: an export without content downloads a file.
handleExport_exportsEmpty ==
  /\ lastOp' = Op("export", "file")
  /\ UNCHANGED <<canvasVars, hostVars, now>>

\* The handler reads the scene only; what it shows or downloads is recorded
\* in lastOp: the alert, or the click on the download link.
handleExport ==
  /\ lastOp' = IF ~hasContent THEN Op("export", "notice") ELSE Op("export", "file")
  /\ UNCHANGED <<canvasVars, hostVars, now>>

(***************************************************************************)
(* Events                                                                  *)
(***************************************************************************)
\* The dependency list of handlePointerDown, with the dependencies of the
\* memoized screenToGrid, gridToScreen and findElementAtPoint it names.
downDeps == <<tool, currentRoom, rooms, freehandPaths, textLabels, zoom,
              viewOffset, lastClickTime, lastClickedText>>

\* The render after a handler: handlePointerDown is made anew, and closes
\* over the current isPinching, when one of its dependencies has changed.
\* The floor-plan application is another page and is left alone, and so is
\* the record of the function applications.
Recapture ==
  /\ capturedIsPinching' = IF downDeps' # downDeps THEN isPinching'
                           ELSE capturedIsPinching
  /\ UNCHANGED <<floorPlanVars, fnVars, fabricVars>>

\* What a step did, for the gesture history: a point was appended to the
\* stroke in progress or a stroke was committed; the zoom changed.
DrewNow ==
  \/ currentPath # <<>> /\ Len(currentPath') > Len(currentPath)
  \/ Len(freehandPaths') > Len(freehandPaths)
ZoomedNow == zoom' # zoom

\* The bound on the stroke in progress: a move that would exceed it is not taken.
Bounded == Len(currentPath') <= MaxPath

\* The mouse button goes down over the canvas, and comes up over it or after
\* the pointer has left it; the toolbar and the Done button are clicked with
\* the button up and no finger on the canvas.
MouseDown(px, dt) ==
  /\ ~pressed /\ touches = 0
  /\ pressed' = TRUE
  /\ handlePointerDown(0, px, 0, dt)
  /\ Recapture
  /\ UNCHANGED <<touches, gestureDrew, gestureZoomed>>

MouseMove(px) ==
  /\ touches = 0
  /\ handlePointerMove(0, px, 0)
  /\ Bounded
  /\ Recapture
  /\ UNCHANGED <<touches, pressed, gestureDrew, gestureZoomed>>

MouseUp(dt) ==
  /\ pressed
  /\ pressed' = FALSE
  /\ handlePointerUp(dt)
  /\ Recapture
  /\ UNCHANGED <<touches, gestureDrew, gestureZoomed>>

MouseLeave ==
  /\ touches = 0
  /\ pressed' = FALSE
  /\ handlePointerLeave
  /\ Recapture
  /\ UNCHANGED <<touches, gestureDrew, gestureZoomed>>

\* A finger comes down: e.touches holds the fingers already down and this one.
TouchStart(px, distance, dt) ==
  /\ ~pressed /\ touches < MaxTouches
  /\ UNCHANGED pressed
  /\ touches' = touches + 1
  /\ handlePointerDown(touches + 1, px, distance, dt)
  /\ Recapture
  /\ gestureDrew' = ((touches > 0 /\ gestureDrew) \/ DrewNow)
  /\ gestureZoomed' = ((touches > 0 /\ gestureZoomed) \/ ZoomedNow)

TouchMove(px, distance) ==
  /\ touches >= 1
  /\ UNCHANGED <<touches, pressed>>
  /\ handlePointerMove(touches, px, distance)
  /\ Bounded
  /\ Recapture
  /\ gestureDrew' = (gestureDrew \/ DrewNow)
  /\ gestureZoomed' = (gestureZoomed \/ ZoomedNow)

\* A finger is lifted.
TouchEnd(dt) ==
  /\ touches >= 1
  /\ touches' = touches - 1
  /\ UNCHANGED pressed
  /\ handlePointerUp(dt)
  /\ Recapture
  /\ gestureDrew' = (gestureDrew \/ DrewNow)
  /\ gestureZoomed' = (gestureZoomed \/ ZoomedNow)

TouchCancel ==
  /\ touches >= 1
  /\ touches' = 0
  /\ UNCHANGED pressed
  /\ handlePointerLeave
  /\ Recapture
  /\ UNCHANGED <<gestureDrew, gestureZoomed>>

Idle == ~pressed /\ touches = 0
uiUnchanged ==
  /\ Recapture
  /\ UNCHANGED <<touches, pressed, gestureDrew, gestureZoomed>>

\* The Done button calls handleRoomComplete.  The button is rendered for a
\* closed draft of three or more vertices only; the handler has the same
\* test of its own and is modelled for every draft.
Done(dt) ==
  /\ Idle
  /\ handleRoomComplete(dt)
  /\ uiUnchanged

TextSubmit(dt) ==
  /\ textInput # <<>>
  /\ handleTextSubmit(dt)
  /\ uiUnchanged

TextDelete ==
  /\ textInput # <<>> /\ textInput[1].editingId # NoId
  /\ handleTextDelete
  /\ uiUnchanged

TextChange(value) ==
  /\ textInput # <<>>
  /\ handleTextChange(value)
  /\ uiUnchanged

TextCancel ==
  /\ textInput # <<>>
  /\ handleTextCancel
  /\ uiUnchanged

Undo == Idle /\ handleUndo /\ uiUnchanged

Clear == Idle /\ handleClear /\ uiUnchanged

ToolChange(id) ==
  /\ Idle
  /\ handleToolChange(id)
  /\ uiUnchanged

\* The Export button of the toolbar, through window.roomCanvasExport.
Export == Idle /\ handleExport /\ uiUnchanged

ZoomIn == Idle /\ handleZoomIn /\ uiUnchanged

ZoomOut == Idle /\ handleZoomOut /\ uiUnchanged

(***************************************************************************)
(* Inputs                                                                  *)
(***************************************************************************)
\* Pixel positions of a pointer-down.  With the initial view they are the
\* grid points (0,0) and (4,0), and a point 22 px from the first that rounds
\* to the grid point (1,1).
ScreenPts == {Pt(50, 50), Pt(130, 50), Pt(70, 60)}
\* Pixel positions of a pointer move.
MovePts == {Pt(130, 50)}
\* Milliseconds since the last handled event.  An event's delay reaches a
\* handler only through isDoubleClick, which needs lastClickedText to be set:
\* a pointer-down then comes fast or slow, and every other event comes fast.
Delays == {100}
ClickDelays == IF lastClickedText # NoId THEN {100, DoubleClickMs} ELSE {100}
\* Finger distances of a two-finger touch, in pixels: when the second finger
\* comes down, and as the fingers move.
TouchDistances == {100}
SpreadDistances == {100, 500}
Texts == {<<"a">>, <<" ">>}
ToolIds == {"freehand", "room", "label", "erase"}

Next ==
  \/ \E px \in ScreenPts, dt \in ClickDelays : MouseDown(px, dt)
  \/ \E px \in MovePts : MouseMove(px)
  \/ \E dt \in Delays : MouseUp(dt)
  \/ MouseLeave
  \/ \E dt \in Delays : Done(dt)
  \/ \E dt \in Delays : TextSubmit(dt)
  \/ TextDelete
  \/ \E value \in Texts : TextChange(value)
  \/ TextCancel
  \/ Undo
  \/ Clear
  \/ \E id \in ToolIds : ToolChange(id)

Spec == Init /\ [][Next]_vars

\* The same program driven through a touch screen, with the two drawing tools.
TouchToolIds == {"freehand", "room"}

NextTouch ==
  \/ \E px \in ScreenPts, d \in TouchDistances, dt \in Delays :
       TouchStart(px, d, dt)
  \/ \E px \in MovePts, d \in SpreadDistances : TouchMove(px, d)
  \/ \E dt \in Delays : TouchEnd(dt)
  \/ TouchCancel
  \/ \E dt \in Delays : Done(dt)
  \/ Undo
  \/ Clear
  \/ \E id \in TouchToolIds : ToolChange(id)

SpecTouch == Init /\ [][NextTouch]_vars


(***************************************************************************)
(* Properties                                                              *)
(***************************************************************************)
\* The entities of s whose id is not id, in order.
Without(s, id) == SelectSeq(s, LAMBDA e : e.id # id)

ClosingClick(px, dt) ==
  /\ MouseDown(px, dt)
  /\ tool = "room"
  /\ Len(currentRoom) >= MinRoomPoints
  /\ Within(getEventPoint(px), gridToScreen(currentRoom[1]), CloseRadius)

\* What C2 says of a closing click: the draft becomes closed, no vertex is
\* added, no room is committed and the undo log is left alone.
ClosesOnly ==
  /\ isRoomClosed'
  /\ UNCHANGED <<currentRoom, rooms, actionHistory>>

\* Whether a text label lies within its hit radius of the screen position px.
OnTextLabel(px) == findElementAtPoint(getEventPoint(px)).type = "text"

RoomAdded == \E i \in 1..Len(rooms') : rooms'[i].id \notin Ids(rooms)

RoomDraft == currentRoom # <<>>
StrokeDraft == currentPath # <<>>
TextDraft == textInput # <<>>

\* C4: whenever the active tool changes while a draft is non-empty, after the
\* change the room draft is empty with closed = false, the stroke in progress
\* is empty with drawing off, no text editing is active, and nothing has been
\* committed to the scene.
C4_ToolChangeDiscardsDraft ==
  [][\A id \in ToolIds :
       (ToolChange(id) /\ (RoomDraft \/ StrokeDraft \/ TextDraft)) =>
         /\ currentRoom' = <<>> /\ ~isRoomClosed'
         /\ currentPath' = <<>> /\ ~isDrawing'
         /\ textInput' = <<>>
         /\ UNCHANGED <<rooms, freehandPaths, textLabels, actionHistory>>
    ]_vars

\* C5: in every reachable state at most one draft is active: a non-empty
\* room draft, a non-empty current path and open text editing are pairwise
\* mutually exclusive.
C5_AtMostOneDraft ==
  /\ ~(RoomDraft /\ StrokeDraft)
  /\ ~(RoomDraft /\ TextDraft)
  /\ ~(StrokeDraft /\ TextDraft)

\* C6: after clear the three collections, the room and stroke drafts, the
\* text-editing state and the undo log are empty and closed = false, the
\* host's rooms are empty too, and an undo that follows changes nothing.
C6_ClearEmptiesAll ==
  [][/\ Clear =>
          /\ rooms' = <<>> /\ freehandPaths' = <<>> /\ textLabels' = <<>>
          /\ currentRoom' = <<>> /\ currentPath' = <<>> /\ textInput' = <<>>
          /\ actionHistory' = <<>> /\ ~isRoomClosed'
          /\ appRooms' = <<>>
     /\ (lastOp.name = "clear" /\ Undo) => UNCHANGED <<canvasVars, hostVars>>
    ]_vars

\* Clear has just emptied a canvas that held committed entities.
C6_Witness ==
  /\ lastOp = Op("clear", "content")
  /\ rooms = <<>> /\ freehandPaths = <<>> /\ textLabels = <<>>
  /\ actionHistory = <<>>

\* The ids of the committed entities.
SceneIds == Ids(rooms) \cup Ids(freehandPaths) \cup Ids(textLabels)

\* C7: every step that commits to the scene, by adding a room, a stroke or a
\* label or by deleting an entity, appends exactly one entry to the undo log
\* (undo and clear shorten the log instead), and a step that appends to the
\* log appends one entry and commits to the scene.
C7_EveryCommitLogged ==
  [][LET appended == /\ Len(actionHistory') = Len(actionHistory) + 1
                     /\ SubSeq(actionHistory', 1, Len(actionHistory)) = actionHistory
     IN  /\ (SceneIds' # SceneIds /\ ~Undo /\ ~Clear) => appended
         /\ Len(actionHistory') > Len(actionHistory)
              => (appended /\ SceneIds' # SceneIds)
    ]_vars

\* C8: with the erase tool, a pointer-down where the hit tester finds an
\* element removes exactly that element from its collection, whichever of
\* the three kinds it is, and leaves every other element unchanged; where the
\* hit tester finds nothing the scene is unchanged.
C8_EraseRemovesHit ==
  [][\A px \in ScreenPts, dt \in {100, DoubleClickMs} :
       (MouseDown(px, dt) /\ tool = "erase") =>
         LET hit == findElementAtPoint(getEventPoint(px))
         IN  /\ rooms' = IF hit.type = "room"
                         THEN Without(rooms, hit.id) ELSE rooms
             /\ freehandPaths' = IF hit.type = "freehand"
                                 THEN Without(freehandPaths, hit.id)
                                 ELSE freehandPaths
             /\ textLabels' = IF hit.type = "text"
                              THEN Without(textLabels, hit.id) ELSE textLabels
    ]_vars

\* C9: in every quiescent state (no button held, no finger down) the host's
\* copy of the rooms equals the canvas's room collection.
C9_HostRoomsInSync == Idle => appRooms = rooms

\* C10: the drawing flag and the pinching flag are never both true, and no
\* touch gesture both draws (appends freehand points or commits a stroke)
\* and changes the zoom.
C10_DrawOrPinch ==
  /\ ~(isDrawing /\ isPinching)
  /\ ~(gestureDrew /\ gestureZoomed)


\* C11: when the pointer leaves the canvas, or the touch is cancelled, during
\* a freehand drag, afterwards drawing is off, the stroke in progress is
\* empty and no stroke has been committed.
C11_LeaveResetsStroke ==
  [][(MouseLeave /\ tool = "freehand" /\ isDrawing) =>
       /\ ~isDrawing'
       /\ currentPath' = <<>>
       /\ freehandPaths' = freehandPaths
    ]_vars


(***************************************************************************)
(* The zoom controls: the two toolbar buttons and the pinch, with the      *)
(* fingers coming down and staying at one position.                        *)
(***************************************************************************)
ZoomPts == {Pt(50, 50)}

NextZoom ==
  \/ ZoomIn
  \/ ZoomOut
  \/ \E px \in ZoomPts, d \in TouchDistances, dt \in Delays : TouchStart(px, d, dt)
  \/ \E px \in ZoomPts, d \in SpreadDistances : TouchMove(px, d)
  \/ \E dt \in Delays : TouchEnd(dt)
  \/ TouchCancel

SpecZoom == Init /\ [][NextZoom]_vars


C13_RoomsWellFormed ==
  \A i \in DOMAIN rooms :
    /\ Len(rooms[i].points) >= MinRoomPoints
    /\ rooms[i].area = Half(Abs(ShoelaceSum(rooms[i].points, 1)))

\* A room of non-zero area has been committed.
C13_Witness ==
  /\ rooms # <<>>
  /\ lastOp = Op("roomComplete", "commit")
  /\ rooms[Len(rooms)].area.num > 0


(***************************************************************************)
(* The text labels: the label tool, clicks and double clicks with the      *)
(* mouse, and the text input.                                              *)
(***************************************************************************)
LabelTexts == {<<"a">>, <<"b">>, <<" ">>}
LabelToolIds == {"label"}

NextText ==
  \/ \E px \in ScreenPts, dt \in ClickDelays : MouseDown(px, dt)
  \/ \E dt \in Delays : MouseUp(dt)
  \/ \E dt \in Delays : TextSubmit(dt)
  \/ TextDelete
  \/ \E value \in LabelTexts : TextChange(value)
  \/ TextCancel
  \/ \E id \in LabelToolIds : ToolChange(id)

SpecText == Init /\ [][NextText]_vars


\* The text input opened for a new label at grid position pos.
NewLabelInput(pos) ==
  <<[position |-> pos, value |-> <<>>, isEditing |-> TRUE, editingId |-> NoId]>>

\* The text input opened for the existing label.
EditLabelInput(label) ==
  <<[position |-> label.position, value |-> label.text, isEditing |-> TRUE,
     editingId |-> label.id]>>

\* The second click of a double click: on the label that was clicked last,
\* less than DoubleClickMs after that click.
DoubleClickOn(px, dt) ==
  /\ OnTextLabel(px)
  /\ lastClickedText = findElementAtPoint(getEventPoint(px)).id
  /\ now + dt - lastClickTime < DoubleClickMs

\* The labels after a submit that edits: the labels with the edited id have
\* the submitted text, and nothing else is changed.
OnlyTextOf(id, text) ==
  /\ Len(textLabels') = Len(textLabels)
  /\ \A i \in DOMAIN textLabels :
       /\ textLabels'[i].id = textLabels[i].id
       /\ textLabels'[i].position = textLabels[i].position
       /\ textLabels'[i].text = IF textLabels[i].id = id THEN text
                                ELSE textLabels[i].text

\* C14: a label-tool click off every label opens the text input, empty, at the
\* clicked grid position; a double click on a label opens it with the label's
\* text and id; a submit of non-blank text adds exactly one label at the
\* input's position when a new label is edited, and changes only the text of
\* the edited label otherwise; a cancel or a blank submit leaves the labels
\* unchanged; after a submit or a cancel the text input is closed.
C14_LabelLifecycle ==
  [][/\ \A px \in ScreenPts, dt \in {100, DoubleClickMs} :
          /\ (MouseDown(px, dt) /\ tool = "label" /\ ~OnTextLabel(px)) =>
               /\ textInput' = NewLabelInput(screenToGrid(getEventPoint(px)))
               /\ textLabels' = textLabels
          /\ (MouseDown(px, dt) /\ DoubleClickOn(px, dt)) =>
               /\ textInput' =
                    EditLabelInput(textLabels[findElementAtPoint(getEventPoint(px)).idx])
               /\ textLabels' = textLabels
     /\ \A dt \in Delays :
          TextSubmit(dt) =>
            /\ textInput' = <<>>
            /\ IF Trim(textInput[1].value) = <<>> THEN textLabels' = textLabels
               ELSE IF textInput[1].editingId = NoId THEN
                 /\ Len(textLabels') = Len(textLabels) + 1
                 /\ SubSeq(textLabels', 1, Len(textLabels)) = textLabels
                 /\ textLabels'[Len(textLabels')].position = textInput[1].position
                 /\ textLabels'[Len(textLabels')].text = textInput[1].value
               ELSE OnlyTextOf(textInput[1].editingId, textInput[1].value)
     /\ TextCancel => (textInput' = <<>> /\ textLabels' = textLabels)
    ]_vars

\* A label created as "a" has been opened by a double click and submitted as
\* "b"; the text input is closed.
C14_Witness ==
  /\ textInput = <<>>
  /\ \E i \in DOMAIN textLabels, h \in DOMAIN actionHistory :
       /\ actionHistory[h].type = "text"
       /\ actionHistory[h].data.id = textLabels[i].id
       /\ actionHistory[h].data.text = <<"a">>
       /\ textLabels[i].text = <<"b">>


(***************************************************************************)
(* FloorPlanApp with FloorPlanCanvas                                       *)
(*                                                                         *)
(* Lengths are in pixels.  A screen length is a world length times         *)
(* zoom / FpZoomBase; the model keeps world positions, which are multiples *)
(* of GRID_SIZE, and compares screen lengths multiplied by FpZoomBase.     *)
(***************************************************************************)
MaxWalls == 1

\* Math.round(((pos - viewOffset) / (zoom / 10)) / GRID_SIZE) * GRID_SIZE
fpSnapped(pos) ==
  [x |-> RoundDiv(FpZoomBase * (pos.x - fpViewOffset.x), GRID_SIZE * fpZoom) * GRID_SIZE,
   y |-> RoundDiv(FpZoomBase * (pos.y - fpViewOffset.y), GRID_SIZE * fpZoom) * GRID_SIZE]

\* distToStart < 15 || distToEnd < 15, on the screen
fpNearEnd(wall, pos) ==
  LET near(p) ==
        DistSq([x |-> p.x * fpZoom + FpZoomBase * fpViewOffset.x,
                y |-> p.y * fpZoom + FpZoomBase * fpViewOffset.y],
               [x |-> FpZoomBase * pos.x, y |-> FpZoomBase * pos.y])
          < (FpZoomBase * WallHitRadius) * (FpZoomBase * WallHitRadius)
  IN  near(wall.start) \/ near(wall.end)

\* FloorPlanApp.handleWallsChange, the canvas's onWallsChange prop
handleWallsChange(newWalls) == appWalls' = newWalls

\* Mutation of fpHandleStart: the second wall click keeps the start and
\* stays in the drawing state.
fpHandleStart_keepsDrawing(button, pos, dt) ==
  /\ UNCHANGED <<fpViewOffset, fpActiveTool, fpZoom>>
  /\ IF button = 1 THEN
       /\ isPanning' = TRUE
       /\ lastPanPoint' = <<pos>>
       /\ UNCHANGED <<walls, fpIsDrawing, currentWall, appWalls, now>>
     ELSE
       /\ UNCHANGED <<isPanning, lastPanPoint>>
       /\ IF fpActiveTool = "wall" THEN
            IF ~fpIsDrawing THEN
              /\ currentWall' = <<fpSnapped(pos)>>
              /\ fpIsDrawing' = TRUE
              /\ UNCHANGED <<walls, appWalls, now>>
            ELSE
              /\ IF currentWall # <<>> THEN
                   LET newWall == [id |-> ToString(now + dt),
                                   start |-> currentWall[1],
                                   end |-> fpSnapped(pos)]
                       newWalls == Append(walls, newWall)
                   IN
                   /\ walls' = newWalls
                   /\ handleWallsChange(newWalls)
                   /\ Tick(dt)
                 ELSE UNCHANGED <<walls, appWalls, now>>
              /\ UNCHANGED <<currentWall, fpIsDrawing>>
          ELSE IF fpActiveTool = "erase" THEN
            LET hits == {i \in 1..Len(walls) : fpNearEnd(walls[i], pos)}
            IN
            /\ IF hits # {} THEN
                 LET wallToDelete == walls[CHOOSE i \in hits : \A k \in hits : i <= k]
                     newWalls == SeqFilter(walls, wallToDelete.id)
                 IN
                 /\ walls' = newWalls
                 /\ handleWallsChange(newWalls)
               ELSE UNCHANGED <<walls, appWalls>>
            /\ UNCHANGED <<fpIsDrawing, currentWall, now>>
          ELSE
            UNCHANGED <<walls, fpIsDrawing, currentWall, appWalls, now>>

\* FloorPlanCanvas.handleStart, for a press of mouse button `button` at pos
fpHandleStart(button, pos, dt) ==
  /\ UNCHANGED <<fpViewOffset, fpActiveTool, fpZoom>>
  /\ IF button = 1 THEN
       /\ isPanning' = TRUE
       /\ lastPanPoint' = <<pos>>
       /\ UNCHANGED <<walls, fpIsDrawing, currentWall, appWalls, now>>
     ELSE
       /\ UNCHANGED <<isPanning, lastPanPoint>>
       /\ IF fpActiveTool = "wall" THEN
            IF ~fpIsDrawing THEN
              /\ currentWall' = <<fpSnapped(pos)>>
              /\ fpIsDrawing' = TRUE
              /\ UNCHANGED <<walls, appWalls, now>>
            ELSE
              /\ IF currentWall # <<>> THEN
                   LET newWall == [id |-> ToString(now + dt),
                                   start |-> currentWall[1],
                                   end |-> fpSnapped(pos)]
                       newWalls == Append(walls, newWall)
                   IN
                   /\ walls' = newWalls
                   /\ handleWallsChange(newWalls)
                   /\ Tick(dt)
                 ELSE UNCHANGED <<walls, appWalls, now>>
              /\ currentWall' = <<>>
              /\ fpIsDrawing' = FALSE
          ELSE IF fpActiveTool = "erase" THEN
            LET hits == {i \in 1..Len(walls) : fpNearEnd(walls[i], pos)}
            IN
            /\ IF hits # {} THEN
                 LET wallToDelete == walls[CHOOSE i \in hits : \A k \in hits : i <= k]
                     newWalls == SeqFilter(walls, wallToDelete.id)
                 IN
                 /\ walls' = newWalls
                 /\ handleWallsChange(newWalls)
               ELSE UNCHANGED <<walls, appWalls>>
            /\ UNCHANGED <<fpIsDrawing, currentWall, now>>
          ELSE
            UNCHANGED <<walls, fpIsDrawing, currentWall, appWalls, now>>

\* FloorPlanCanvas.handleMove
fpHandleMove(pos) ==
  /\ UNCHANGED <<walls, fpIsDrawing, currentWall, isPanning, fpActiveTool,
                 appWalls, fpZoom, now>>
  /\ IF isPanning /\ lastPanPoint # <<>> THEN
       /\ fpViewOffset' = [x |-> fpViewOffset.x + (pos.x - lastPanPoint[1].x),
                           y |-> fpViewOffset.y + (pos.y - lastPanPoint[1].y)]
       /\ lastPanPoint' = <<pos>>
     ELSE UNCHANGED <<fpViewOffset, lastPanPoint>>

\* FloorPlanCanvas.handleEnd and handleLeave
fpHandleEnd ==
  /\ isPanning' = FALSE
  /\ lastPanPoint' = <<>>
  /\ UNCHANGED <<walls, fpIsDrawing, currentWall, fpViewOffset, fpActiveTool,
                 appWalls, fpZoom, now>>

\* FloorPlanApp.handleToolChange
fpHandleToolChange(id) ==
  /\ fpActiveTool' = id
  /\ UNCHANGED <<walls, fpIsDrawing, currentWall, fpViewOffset, isPanning,
                 lastPanPoint, appWalls, fpZoom, now>>

\* The events of the floor-plan page; the room-map page is left alone.  A
\* press that would take the walls beyond MaxWalls and a move that would take
\* the view beyond MaxPan pixels are not taken.  The zoom stays at its
\* initial value.
MaxPan == 20

\* Clear All of the toolbar: handleClear of the host, which holds a wall list
\* of its own and hands the canvas neither that list nor a signal.
fpHandleClear ==
  /\ appWalls' = <<>>
  /\ UNCHANGED <<walls, fpIsDrawing, currentWall, fpViewOffset, isPanning,
                 lastPanPoint, fpActiveTool, fpZoom, now>>

FpStart(button, pos, dt) ==
  /\ fpHandleStart(button, pos, dt)
  /\ Len(walls') <= MaxWalls
  /\ UNCHANGED <<roomMapVars, fnVars, fabricVars>>

FpMove(pos) ==
  /\ fpHandleMove(pos)
  /\ Abs(fpViewOffset'.x) <= MaxPan /\ Abs(fpViewOffset'.y) <= MaxPan
  /\ UNCHANGED <<roomMapVars, fnVars, fabricVars>>

FpEnd == fpHandleEnd /\ UNCHANGED <<roomMapVars, fnVars, fabricVars>>

FpToolChange(id) == fpHandleToolChange(id) /\ UNCHANGED <<roomMapVars, fnVars, fabricVars>>

FpClear == fpHandleClear /\ UNCHANGED <<roomMapVars, fnVars, fabricVars>>

\* Pixel positions of the pointer over the floor-plan canvas, mouse buttons
\* (0 left, 1 middle) and tools.
WallPts == {Pt(0, 0), Pt(20, 20)}
Buttons == {0, 1}
FpToolIds == {"select", "wall", "erase"}

NextWalls ==
  \/ \E button \in Buttons, pos \in WallPts, dt \in Delays : FpStart(button, pos, dt)
  \/ \E pos \in WallPts : FpMove(pos)
  \/ FpEnd
  \/ \E id \in FpToolIds : FpToolChange(id)

SpecWalls == Init /\ [][NextWalls]_vars


\* A press of the left button with the wall tool.
WallClick(pos, dt) == FpStart(0, pos, dt) /\ fpActiveTool = "wall"

\* A press of the left button with the erase tool.
EraseClick == \E pos \in WallPts, dt \in Delays :
                FpStart(0, pos, dt) /\ fpActiveTool = "erase"

ExportPts == {Pt(50, 50), Pt(130, 50)}
ExportTexts == {<<"a">>}
ExportToolIds == {"room", "label"}

NextExport ==
  \/ \E px \in ExportPts, dt \in Delays : MouseDown(px, dt)
  \/ \E px \in MovePts : MouseMove(px)
  \/ \E dt \in Delays : MouseUp(dt)
  \/ \E dt \in Delays : Done(dt)
  \/ \E dt \in Delays : TextSubmit(dt)
  \/ \E value \in ExportTexts : TextChange(value)
  \/ Undo
  \/ Clear
  \/ \E id \in ExportToolIds : ToolChange(id)
  \/ Export

SpecExport == Init /\ [][NextExport]_vars


\* No committed room, stroke or label.
SceneEmpty == rooms = <<>> /\ freehandPaths = <<>> /\ textLabels = <<>>

\* C16: an export leaves the scene, the drafts, the view offset, the zoom and
\* the undo log unchanged; when the scene has no room, stroke or label it
\* shows the notice and downloads no file.
C16_ExportReadsOnly ==
  [][Export =>
       /\ UNCHANGED <<canvasVars, hostVars>>
       /\ SceneEmpty => lastOp' = Op("export", "notice")
    ]_vars

\* An export of an empty scene, with a room draft in progress, has shown the
\* notice.
C16_Witness ==
  /\ lastOp = Op("export", "notice")
  /\ SceneEmpty
  /\ currentRoom # <<>>


(***************************************************************************)
(* The functions of the canvas applied to given arguments.  Everything     *)
(* but the argument, the result and, for the coordinate transform, the     *)
(* zoom and the view offset the functions read, is as after mount.         *)
(***************************************************************************)
RestAtInit ==
  /\ rooms = <<>> /\ freehandPaths = <<>> /\ textLabels = <<>>
  /\ currentRoom = <<>> /\ currentPath = <<>>
  /\ isDrawing = FALSE
  /\ actionHistory = <<>>
  /\ textInput = <<>>
  /\ isDraggingText = <<>>
  /\ lastClickTime = 0
  /\ lastClickedText = NoId
  /\ currentTool = "freehand"
  /\ isPinching = FALSE
  /\ lastPinchDistance = 0
  /\ lastPinchZoom = ZoomBase
  /\ isRoomClosed = FALSE
  /\ capturedIsPinching = FALSE
  /\ activeTool = "freehand"
  /\ appRooms = <<>>
  /\ now = DoubleClickMs
  /\ touches = 0
  /\ pressed = FALSE
  /\ lastOp = Op("mount", "")
  /\ gestureDrew = FALSE
  /\ gestureZoomed = FALSE
  /\ walls = <<>>
  /\ fpIsDrawing = FALSE
  /\ currentWall = <<>>
  /\ fpViewOffset = [x |-> 0, y |-> 0]
  /\ isPanning = FALSE
  /\ lastPanPoint = <<>>
  /\ fpActiveTool = "wall"
  /\ appWalls = <<>>
  /\ fpZoom = FpInitialZoom
  /\ FabricInit

\* What an application leaves alone.
fnFrame == UNCHANGED <<roomMapVars, now, floorPlanVars, fnInput, fabricVars>>

\* Coordinates of the points the transform is applied to: grid units of a
\* grid point, pixels of a screen point.
MaxCoord == 10
TransformPts == {Pt(x, y) : x \in (0 - MaxCoord)..MaxCoord, y \in {0 - 3, 7}}
\* Zoom percentages within the range of the pinch, and view offsets that the
\* pan buttons reach in steps of 50 pixels.
TransformZooms == {PinchMinZoom, 70, ZoomBase, MAX_ZOOM, PinchMaxZoom}
TransformOffsets == {[x |-> InitialOffset, y |-> InitialOffset],
                     [x |-> 0, y |-> 2 * InitialOffset]}

InitTransform ==
  /\ RestAtInit
  /\ zoom \in TransformZooms
  /\ viewOffset \in TransformOffsets
  /\ fnInput \in TransformPts
  /\ fnOutput = <<>>

\* screenToGrid(gridToScreen(g)) for the grid point g = fnInput
GridRoundTrip ==
  /\ fnOutput' = <<[fn |-> "screenToGrid", of |-> "grid",
                    value |-> screenToGrid(gridToScreen(fnInput))]>>
  /\ fnFrame

\* gridToScreen(screenToGrid(p)) for the screen point p = fnInput, in pixels
ScreenRoundTrip ==
  /\ fnOutput' = <<[fn |-> "gridToScreen", of |-> "screen",
                    value |-> gridToScreen(screenToGrid(getEventPoint(fnInput)))]>>
  /\ fnFrame

NextTransform == GridRoundTrip \/ ScreenRoundTrip

SpecTransform == InitTransform /\ [][NextTransform]_vars

\* C17: screenToGrid(gridToScreen(g)) is g for a grid point g, and each
\* coordinate of gridToScreen(screenToGrid(p)) is within half a scaled grid
\* cell, GRID_SIZE * zoom / 100 / 2 pixels, of the coordinate of p.
C17_RoundTrip ==
  \A i \in DOMAIN fnOutput :
    /\ fnOutput[i].of = "grid" => fnOutput[i].value = fnInput
    /\ fnOutput[i].of = "screen" =>
         /\ 2 * Abs(fnOutput[i].value.x - getEventPoint(fnInput).x) <= zoom
         /\ 2 * Abs(fnOutput[i].value.y - getEventPoint(fnInput).y) <= zoom

\* A screen point exactly half a cell from the grid point it is mapped to, at
\* a zoom and view offset other than the initial ones.
C17_Witness ==
  /\ fnOutput # <<>>
  /\ fnOutput[1].of = "screen"
  /\ zoom # ZoomBase
  /\ viewOffset.x # InitialOffset
  /\ 2 * Abs(fnOutput[1].value.x - getEventPoint(fnInput).x) = zoom


(***************************************************************************)
(* calculateArea applied to a point list, to the list reversed and to the  *)
(* list rotated.                                                           *)
(***************************************************************************)
MaxPolygon == 4
AreaPts == {Pt(0, 0), Pt(4, 0), Pt(4, 4), Pt(0, 4), Pt(1, 0 - 2)}
Polygons == UNION {[1..n -> AreaPts] : n \in 0..MaxPolygon}

\* [...P].reverse()
Reversed(P) == [i \in 1..Len(P) |-> P[Len(P) + 1 - i]]
\* P rotated to start at its point k + 1
Rotated(P, k) == [i \in 1..Len(P) |-> P[((i + k - 1) % Len(P)) + 1]]

InitArea ==
  /\ RestAtInit
  /\ zoom = ZoomBase
  /\ viewOffset = [x |-> InitialOffset, y |-> InitialOffset]
  /\ fnInput \in Polygons
  /\ fnOutput = <<>>

AreaOf ==
  /\ fnOutput' = <<[fn |-> "calculateArea", of |-> "list",
                    value |-> calculateArea(fnInput)]>>
  /\ fnFrame

AreaOfReversed ==
  /\ fnOutput' = <<[fn |-> "calculateArea", of |-> "reversed",
                    value |-> calculateArea(Reversed(fnInput))]>>
  /\ fnFrame

AreaOfRotated(k) ==
  /\ k < Len(fnInput)
  /\ fnOutput' = <<[fn |-> "calculateArea", of |-> "rotated",
                    value |-> calculateArea(Rotated(fnInput, k))]>>
  /\ fnFrame

NextArea ==
  \/ AreaOf
  \/ AreaOfReversed
  \/ \E k \in 1..MaxPolygon : AreaOfRotated(k)

SpecArea == InitArea /\ [][NextArea]_vars

\* C18: the area of the reversed list and the area of every rotation of the
\* list are the area of the list.
C18_AreaOrderFree ==
  \A i \in DOMAIN fnOutput :
    fnOutput[i].of \in {"reversed", "rotated"} =>
      fnOutput[i].value = calculateArea(fnInput)

\* The area of a reversed list of four points, not zero, has been computed.
C18_Witness ==
  /\ fnOutput # <<>>
  /\ fnOutput[1].of = "reversed"
  /\ Len(fnInput) = MaxPolygon
  /\ fnOutput[1].value.num > 0

\* The sum of x_i * y_j - x_j * y_i over the points i of P, j the point after
\* i and the first point after the last.
RECURSIVE CrossSum(_, _)
CrossSum(P, I) ==
  IF I = {} THEN 0
  ELSE LET i == CHOOSE k \in I : TRUE
           j == IF i = Len(P) THEN 1 ELSE i + 1
       IN  (P[i].x * P[j].y - P[j].x * P[i].y) + CrossSum(P, I \ {i})

\* C19: for three or more points calculateArea is half the absolute value of
\* the sum of x_i * y_(i+1) - x_(i+1) * y_i around the list, 16 for the
\* square (0,0), (4,0), (4,4), (0,4); for fewer than three points it is 0.
C19_ShoelaceArea ==
  \A i \in DOMAIN fnOutput :
    fnOutput[i].of = "list" =>
      /\ Len(fnInput) >= 3 =>
           LET sum == CrossSum(fnInput, DOMAIN fnInput)
           IN  /\ fnOutput[i].value.den \in {1, 2}
               /\ 2 * fnOutput[i].value.num = fnOutput[i].value.den * Abs(sum)
      /\ fnInput = <<Pt(0, 0), Pt(4, 0), Pt(4, 4), Pt(0, 4)>> =>
           fnOutput[i].value = [num |-> 16, den |-> 1]
      /\ Len(fnInput) < 3 => fnOutput[i].value = [num |-> 0, den |-> 1]

\* The area of the square has been computed.
C19_Witness ==
  /\ fnInput = <<Pt(0, 0), Pt(4, 0), Pt(4, 4), Pt(0, 4)>>
  /\ fnOutput = <<[fn |-> "calculateArea", of |-> "list",
                   value |-> [num |-> 16, den |-> 1]]>>


(***************************************************************************)
(* The end of a freehand stroke.  The initial states are the states of a   *)
(* drag in progress: the button went down with the freehand tool 100 ms    *)
(* after mount, and moves have recorded the stroke.                        *)
(***************************************************************************)
MaxStroke == 3
StrokePts == {Pt(0, 0), Pt(3, 0), Pt(4, 0), Pt(1, 1), Pt(10, 1), Pt(2, 2),
              Pt(0, 0 - 3)}
Strokes == UNION {[1..n -> StrokePts] : n \in 1..MaxStroke}

InitStroke ==
  /\ rooms = <<>> /\ freehandPaths = <<>> /\ textLabels = <<>>
  /\ currentRoom = <<>>
  /\ currentPath \in Strokes
  /\ viewOffset = [x |-> InitialOffset, y |-> InitialOffset]
  /\ isDrawing = TRUE
  /\ actionHistory = <<>>
  /\ textInput = <<>>
  /\ isDraggingText = <<>>
  /\ lastClickTime = DoubleClickMs + 100
  /\ lastClickedText = NoId
  /\ currentTool = "freehand"
  /\ isPinching = FALSE
  /\ lastPinchDistance = 0
  /\ lastPinchZoom = ZoomBase
  /\ isRoomClosed = FALSE
  /\ capturedIsPinching = FALSE
  /\ activeTool = "freehand"
  /\ appRooms = <<>>
  /\ zoom = ZoomBase
  /\ now = DoubleClickMs + 100
  /\ touches = 0
  /\ pressed = TRUE
  /\ lastOp = OtherOp
  /\ gestureDrew = FALSE
  /\ gestureZoomed = FALSE
  /\ walls = <<>>
  /\ fpIsDrawing = FALSE
  /\ currentWall = <<>>
  /\ fpViewOffset = [x |-> 0, y |-> 0]
  /\ isPanning = FALSE
  /\ lastPanPoint = <<>>
  /\ fpActiveTool = "wall"
  /\ appWalls = <<>>
  /\ fpZoom = FpInitialZoom
  /\ FabricInit
  /\ fnInput = <<>>
  /\ fnOutput = <<>>

NextStroke ==
  \/ \E px \in ScreenPts, dt \in Delays : MouseDown(px, dt)
  \/ \E px \in MovePts : MouseMove(px)
  \/ \E dt \in Delays : MouseUp(dt)

SpecStroke == InitStroke /\ [][NextStroke]_vars

\* The direction v is within 15 degrees of snap angle number k: with (a, b)
\* the direction turned back by the snap angle, |b| / a <= tan(15 degrees),
\* which lies between 0.2679 and 0.2680; no quotient of the integers that
\* occur lies between the two.
NearAngle(v, k) ==
  LET w == Rot45(v, k - 1)
  IN  w.x > 0 /\ 10000 * Abs(w.y) <= 2679 * w.x

\* e is the point at distance sqrt(r2) from start in the direction of snap
\* angle number k.
AtAngle(e, start, r2, k) ==
  IF "r2" \in DOMAIN e
  THEN e = [x |-> start.x, y |-> start.y, r2 |-> r2, a |-> snapAngles[k]]
  ELSE LET w == Rot45([x |-> e.x - start.x, y |-> e.y - start.y], k - 1)
       IN  DistSq(start, e) = r2 /\ w.y = 0 /\ w.x > 0

\* A release that commits the stroke in progress.
StrokeEnd == \E dt \in Delays : MouseUp(dt) /\ Len(freehandPaths') > Len(freehandPaths)

\* What is committed at a stroke end when strokes of squared length minSq or
\* more are straightened: the first point and the end at the snap angle and
\* the same distance, when the stroke is long enough and near an angle, and
\* the recorded points otherwise.
CommitsStraightened(minSq) ==
  LET start == currentPath[1]
      end == currentPath[Len(currentPath)]
      v == [x |-> end.x - start.x, y |-> end.y - start.y]
      r2 == DistSq(start, end)
      near == {k \in 1..Len(snapAngles) : NearAngle(v, k)}
      committed == freehandPaths'[Len(freehandPaths')].points
  IN  IF r2 >= minSq /\ near # {}
      THEN /\ Len(committed) = 2
           /\ committed[1] = start
           /\ \E k \in near : AtAngle(committed[2], start, r2, k)
      ELSE committed = currentPath

\* A step changes the stroke in progress only by starting it, appending a
\* point to it or emptying it.
StrokeOnlyGrows ==
  \/ currentPath' = currentPath
  \/ currentPath' = <<>>
  \/ Len(currentPath') = 1
  \/ /\ Len(currentPath') = Len(currentPath) + 1
     /\ SubSeq(currentPath', 1, Len(currentPath)) = currentPath

\* C20 as stated: the stroke is straightened when its first and last point
\* are more than 3 grid units apart and its direction is within 15 degrees of
\* a snap angle, and committed as recorded otherwise.
C20_Original ==
  [][/\ StrokeEnd =>
          CommitsStraightened(MinStraightDistance * MinStraightDistance + 1)
     /\ StrokeOnlyGrows
    ]_vars

\* C20: at a stroke end the committed stroke is the first point and the end
\* point at the snap angle and the original distance when the first and last
\* point are at least 3 grid units apart and the direction is within 15
\* degrees of a snap angle, and the recorded points unchanged otherwise; the
\* stroke in progress is never straightened.
C20_StraightenAtEnd ==
  [][/\ StrokeEnd =>
          CommitsStraightened(MinStraightDistance * MinStraightDistance)
     /\ StrokeOnlyGrows
    ]_vars

\* A recorded stroke of three points from (0,0) to (10,1) has been committed
\* as (0,0) and the point at distance sqrt(101) in direction 0.
C20_Witness ==
  /\ freehandPaths # <<>>
  /\ currentPath = <<>>
  /\ actionHistory # <<>>
  /\ actionHistory[1].data.points =
       <<Pt(0, 0), [x |-> 0, y |-> 0, r2 |-> 101, a |-> 0]>>


(***************************************************************************)
(* checkIfRectangle applied to a point list.                               *)
(***************************************************************************)
\* The side from point i of points to the next point, the first after the last.
RectSide(points, i) ==
  LET current == points[i]
      next == points[(i % 4) + 1]
  IN  [dx |-> next.x - current.x, dy |-> next.y - current.y,
       len2 |-> (next.x - current.x) * (next.x - current.x)
                + (next.y - current.y) * (next.y - current.y)]

\* Math.abs(n) < 0.1 for an integer n
BelowTolerance(n) == 10 * Abs(n) < 1

\* Math.abs(sqrt(a) - sqrt(b)) < 0.1 for integers a, b >= 0: the square of
\* the difference, a + b - 2 * sqrt(a * b), is below 0.01.
LengthsEqual(a, b) ==
  \/ 100 * (a + b) - 1 < 0
  \/ (100 * (a + b) - 1) * (100 * (a + b) - 1) < 40000 * a * b

\* Mutation of checkIfRectangle: the sides are not tested for a right angle.
checkIfRectangle_noRightAngle(points) ==
  IF Len(points) # 4 THEN FALSE
  ELSE
    LET side1 == RectSide(points, 1)
        side2 == RectSide(points, 2)
        side3 == RectSide(points, 3)
        side4 == RectSide(points, 4)
    IN  /\ BelowTolerance(side1.dx * side3.dy - side1.dy * side3.dx)
        /\ BelowTolerance(side2.dx * side4.dy - side2.dy * side4.dx)
        /\ LengthsEqual(side1.len2, side3.len2)
        /\ LengthsEqual(side2.len2, side4.len2)

checkIfRectangle(points) ==
  IF Len(points) # 4 THEN FALSE
  ELSE
    LET side1 == RectSide(points, 1)
        side2 == RectSide(points, 2)
        side3 == RectSide(points, 3)
        side4 == RectSide(points, 4)
        parallel13 == BelowTolerance(side1.dx * side3.dy - side1.dy * side3.dx)
        parallel24 == BelowTolerance(side2.dx * side4.dy - side2.dy * side4.dx)
        equalLength13 == LengthsEqual(side1.len2, side3.len2)
        equalLength24 == LengthsEqual(side2.len2, side4.len2)
        perpendicular12 == BelowTolerance(side1.dx * side2.dx + side1.dy * side2.dy)
    IN  parallel13 /\ parallel24 /\ equalLength13 /\ equalLength24 /\ perpendicular12

MaxVertices == 4
RectPts == {Pt(0, 0), Pt(5, 0), Pt(5, 5), Pt(0, 5), Pt(6, 5), Pt(1, 5)}
VertexLists == UNION {[1..n -> RectPts] : n \in 2..MaxVertices}

InitRectangle ==
  /\ RestAtInit
  /\ zoom = ZoomBase
  /\ viewOffset = [x |-> InitialOffset, y |-> InitialOffset]
  /\ fnInput \in VertexLists
  /\ fnOutput = <<>>

RectangleOf ==
  /\ fnOutput' = <<[fn |-> "checkIfRectangle", of |-> "list",
                    value |-> checkIfRectangle(fnInput)]>>
  /\ fnFrame

NextRectangle == RectangleOf

SpecRectangle == InitRectangle /\ [][NextRectangle]_vars

\* Side i and side j of the four-point list P are parallel, of equal length,
\* perpendicular, each within the tolerance 0.1.
SidesParallel(P, i, j) ==
  10 * Abs(RectSide(P, i).dx * RectSide(P, j).dy
           - RectSide(P, i).dy * RectSide(P, j).dx) < 1
SidesEqual(P, i, j) == LengthsEqual(RectSide(P, i).len2, RectSide(P, j).len2)
SidesPerpendicular(P, i, j) ==
  10 * Abs(RectSide(P, i).dx * RectSide(P, j).dx
           + RectSide(P, i).dy * RectSide(P, j).dy) < 1

\* C21: checkIfRectangle is true exactly for the lists of 4 points whose
\* opposite sides are parallel and of equal length and whose adjacent sides,
\* at each of the four corners, are perpendicular; it is true for the square
\* (0,0), (5,0), (5,5), (0,5) and false for (0,0), (5,0), (6,5), (0,5).
C21_RectangleIff ==
  \A i \in DOMAIN fnOutput :
    fnOutput[i].fn = "checkIfRectangle" =>
      /\ fnOutput[i].value =
           (/\ Len(fnInput) = 4
            /\ SidesParallel(fnInput, 1, 3) /\ SidesParallel(fnInput, 2, 4)
            /\ SidesEqual(fnInput, 1, 3) /\ SidesEqual(fnInput, 2, 4)
            /\ SidesPerpendicular(fnInput, 1, 2) /\ SidesPerpendicular(fnInput, 2, 3)
            /\ SidesPerpendicular(fnInput, 3, 4) /\ SidesPerpendicular(fnInput, 4, 1))
      /\ fnInput = <<Pt(0, 0), Pt(5, 0), Pt(5, 5), Pt(0, 5)>> => fnOutput[i].value
      /\ fnInput = <<Pt(0, 0), Pt(5, 0), Pt(6, 5), Pt(0, 5)>> => ~fnOutput[i].value

\* The square has been classified as a rectangle.
C21_Witness ==
  /\ fnInput = <<Pt(0, 0), Pt(5, 0), Pt(5, 5), Pt(0, 5)>>
  /\ fnOutput = <<[fn |-> "checkIfRectangle", of |-> "list", value |-> TRUE]>>


(***************************************************************************)
(* isPointInRoom applied to a convex polygon and a screen point: the       *)
(* vertex average of the polygon, or a point outside its bounding box.     *)
(***************************************************************************)
MaxCorners == 4
CornerPts == {Pt(0, 0), Pt(4, 0), Pt(4, 3), Pt(0, 3), Pt(2, 5), Pt(1, 1),
              Pt(6, 2)}

\* (b - a) x (c - a)
Turn(a, b, c) == (b.x - a.x) * (c.y - a.y) - (b.y - a.y) * (c.x - a.x)

\* P is the boundary of a convex polygon with its corners in order: every
\* other corner lies strictly on one and the same side of every edge.
Convex(P) ==
  \E s \in {1, 0 - 1} :
    \A i \in DOMAIN P :
      LET j == (i % Len(P)) + 1
      IN  \A k \in DOMAIN P \ {i, j} : s * Turn(P[i], P[j], P[k]) > 0

ConvexPolygons ==
  {P \in UNION {[1..n -> CornerPts] : n \in 3..MaxCorners} : Convex(P)}

RECURSIVE SumX(_)
SumX(P) == IF P = <<>> THEN 0 ELSE Head(P).x + SumX(Tail(P))
RECURSIVE SumY(_)
SumY(P) == IF P = <<>> THEN 0 ELSE Head(P).y + SumY(Tail(P))

\* The vertex average of P on the screen, in sub-pixels.
ScreenCentroid(P) ==
  [x |-> (zoom * SumX(P)) \div Len(P) + SubPx * viewOffset.x,
   y |-> (zoom * SumY(P)) \div Len(P) + SubPx * viewOffset.y]

\* Zoom percentages within the range of the pinch; the polygons are taken at
\* the zooms at which their vertex average is a whole number of sub-pixels.
PolygonZooms == {60, ZoomBase, 300}
\* Screen points, in pixels.
ProbePts == {Pt(x, y) : x \in {0 - 400, 90, 1000}, y \in {0 - 400, 80, 1000}}

InitPolygon ==
  /\ RestAtInit
  /\ zoom \in PolygonZooms
  /\ viewOffset \in TransformOffsets
  /\ fnInput \in ConvexPolygons
  /\ (zoom * SumX(fnInput)) % Len(fnInput) = 0
  /\ (zoom * SumY(fnInput)) % Len(fnInput) = 0
  /\ fnOutput = <<>>

\* The screen point lies outside the bounding box of the polygon P.
OutsideBox(point, P) ==
  \/ \A i \in DOMAIN P : point.x < gridToScreen(P[i]).x
  \/ \A i \in DOMAIN P : point.x > gridToScreen(P[i]).x
  \/ \A i \in DOMAIN P : point.y < gridToScreen(P[i]).y
  \/ \A i \in DOMAIN P : point.y > gridToScreen(P[i]).y

InRoomAtCentroid ==
  /\ fnOutput' = <<[fn |-> "isPointInRoom", of |-> "centroid",
                    at |-> ScreenCentroid(fnInput),
                    value |-> isPointInRoom(ScreenCentroid(fnInput),
                                            [points |-> fnInput])]>>
  /\ fnFrame

InRoomOutsideBox(px) ==
  /\ OutsideBox(getEventPoint(px), fnInput)
  /\ fnOutput' = <<[fn |-> "isPointInRoom", of |-> "outside",
                    at |-> getEventPoint(px),
                    value |-> isPointInRoom(getEventPoint(px),
                                            [points |-> fnInput])]>>
  /\ fnFrame

NextPolygon ==
  \/ InRoomAtCentroid
  \/ \E px \in ProbePts : InRoomOutsideBox(px)

SpecPolygon == InitPolygon /\ [][NextPolygon]_vars

\* C22: isPointInRoom is true at the vertex average of a convex polygon and
\* false at a point outside the polygon's bounding box.
C22_CentroidInBoxOut ==
  \A i \in DOMAIN fnOutput :
    fnOutput[i].fn = "isPointInRoom" =>
      /\ (fnOutput[i].of = "centroid"
          /\ Len(fnInput) * (fnOutput[i].at.x - SubPx * viewOffset.x) = zoom * SumX(fnInput)
          /\ Len(fnInput) * (fnOutput[i].at.y - SubPx * viewOffset.y) = zoom * SumY(fnInput))
         => fnOutput[i].value
      /\ (fnOutput[i].of = "outside" /\ OutsideBox(fnOutput[i].at, fnInput))
         => ~fnOutput[i].value

\* A point to the left of the bounding box of a four-cornered polygon, on the
\* height of the polygon, has been tested at a zoom other than the initial one.
C22_Witness ==
  /\ fnOutput # <<>>
  /\ fnOutput[1].of = "outside"
  /\ Len(fnInput) = 4
  /\ zoom # ZoomBase
  /\ \A i \in DOMAIN fnInput : fnOutput[1].at.x < gridToScreen(fnInput[i]).x
  /\ \E i \in DOMAIN fnInput : fnOutput[1].at.y < gridToScreen(fnInput[i]).y
  /\ \E i \in DOMAIN fnInput : fnOutput[1].at.y > gridToScreen(fnInput[i]).y


(***************************************************************************)
(* findElementAtPoint applied to a scene of committed rooms, strokes and   *)
(* text labels that overlap one another.                                   *)
(***************************************************************************)
MaxScene == 2

\* Sequences without repetition of at most MaxScene elements of S.
Arrangements(S) ==
  {q \in UNION {[1..n -> S] : n \in 0..MaxScene} :
     \A i, j \in DOMAIN q : i # j => q[i] # q[j]}

SceneShapes == {<<Pt(0, 0), Pt(4, 0), Pt(4, 4), Pt(0, 4)>>,
                <<Pt(2, 2), Pt(8, 2), Pt(8, 8), Pt(2, 8)>>}
SceneStrokes == {straightenLine(<<Pt(3, 3), Pt(5, 3)>>),
                 straightenLine(<<Pt(9, 9), Pt(9, 5)>>)}
SceneLabelPositions == {Pt(1, 1), Pt(3, 3)}
SceneZooms == {ZoomBase, MAX_ZOOM}
\* Screen points, in pixels.
HitPts == {Pt(70, 70), Pt(110, 110), Pt(95, 110), Pt(150, 110), Pt(230, 230),
           Pt(230, 155), Pt(400, 400)}

\* The id given to the k-th element committed: the time of its commit.
SceneId(k) == ToString(DoubleClickMs + 100 * k)

SceneRooms(shapes) ==
  [i \in DOMAIN shapes |-> [id |-> SceneId(i), points |-> shapes[i],
                            area |-> calculateArea(shapes[i])]]
ScenePaths(strokes, k) ==
  [i \in DOMAIN strokes |-> [id |-> SceneId(k + i), points |-> strokes[i]]]
SceneLabels(positions, k) ==
  [i \in DOMAIN positions |-> [id |-> SceneId(k + i), position |-> positions[i],
                               text |-> <<"a">>]]
SceneHistory(type, elements) ==
  [i \in DOMAIN elements |-> [type |-> type, data |-> elements[i]]]

\* The canvas after rooms, then strokes, then text labels were committed and
\* the erase tool was chosen.
SceneOf(shapeSet, strokeSet, positionSet, zooms) ==
  /\ \E shapes \in Arrangements(shapeSet),
        strokes \in Arrangements(strokeSet),
        positions \in Arrangements(positionSet) :
       LET committed == Len(shapes) + Len(strokes) + Len(positions) IN
       /\ rooms = SceneRooms(shapes)
       /\ freehandPaths = ScenePaths(strokes, Len(shapes))
       /\ textLabels = SceneLabels(positions, Len(shapes) + Len(strokes))
       /\ actionHistory = SceneHistory("room", rooms)
                            \o SceneHistory("freehand", freehandPaths)
                            \o SceneHistory("text", textLabels)
       /\ appRooms = rooms
       /\ now = DoubleClickMs + 100 * committed
       /\ lastClickTime = IF committed = 0 THEN 0
                          ELSE IF positions = <<>> THEN now ELSE now - 100
  /\ currentRoom = <<>> /\ currentPath = <<>>
  /\ viewOffset = [x |-> InitialOffset, y |-> InitialOffset]
  /\ zoom \in zooms
  /\ isDrawing = FALSE
  /\ textInput = <<>>
  /\ isDraggingText = <<>>
  /\ lastClickedText = NoId
  /\ currentTool = "erase"
  /\ activeTool = "erase"
  /\ isPinching = FALSE
  /\ lastPinchDistance = 0
  /\ lastPinchZoom = ZoomBase
  /\ isRoomClosed = FALSE
  /\ capturedIsPinching = FALSE
  /\ touches = 0
  /\ pressed = FALSE
  /\ lastOp = OtherOp
  /\ gestureDrew = FALSE
  /\ gestureZoomed = FALSE
  /\ walls = <<>>
  /\ fpIsDrawing = FALSE
  /\ currentWall = <<>>
  /\ fpViewOffset = [x |-> 0, y |-> 0]
  /\ isPanning = FALSE
  /\ lastPanPoint = <<>>
  /\ fpActiveTool = "wall"
  /\ appWalls = <<>>
  /\ fpZoom = FpInitialZoom
  /\ FabricInit
  /\ fnInput = <<>>
  /\ fnOutput = <<>>

InitScene == SceneOf(SceneShapes, SceneStrokes, SceneLabelPositions, SceneZooms)

ElementAt(px) ==
  /\ fnOutput' = <<[fn |-> "findElementAtPoint", of |-> getEventPoint(px),
                    value |-> findElementAtPoint(getEventPoint(px))]>>
  /\ fnFrame

NextScene == \E px \in HitPts : ElementAt(px)

SpecScene == InitScene /\ [][NextScene]_vars

LabelsAt(point) ==
  {i \in DOMAIN textLabels :
     DistSq(point, gridToScreen(textLabels[i].position))
       < (TextHitRadius * SubPx) * (TextHitRadius * SubPx)}
RoomsAt(point) == {i \in DOMAIN rooms : isPointInRoom(point, rooms[i])}
PathsAt(point) ==
  {i \in DOMAIN freehandPaths :
     \E j \in DOMAIN freehandPaths[i].points :
       PathPointWithin(point, freehandPaths[i].points[j], PathHitRadius)}

\* C23: the hit tester returns one element or nothing: a text label within
\* 30 px if there is one; otherwise the first room, in collection order, that
\* contains the point; otherwise the first stroke with a recorded vertex
\* within 10 px; otherwise nothing.
C23_HitPriority ==
  \A k \in DOMAIN fnOutput :
    fnOutput[k].fn = "findElementAtPoint" =>
      LET point == fnOutput[k].of
          hit == fnOutput[k].value
      IN  IF LabelsAt(point) # {}
          THEN /\ hit.type = "text"
               /\ hit.idx \in LabelsAt(point)
               /\ hit.id = textLabels[hit.idx].id
          ELSE IF RoomsAt(point) # {}
          THEN /\ hit.type = "room"
               /\ hit.idx \in RoomsAt(point)
               /\ \A i \in RoomsAt(point) : hit.idx <= i
               /\ hit.id = rooms[hit.idx].id
          ELSE IF PathsAt(point) # {}
          THEN /\ hit.type = "freehand"
               /\ hit.idx \in PathsAt(point)
               /\ \A i \in PathsAt(point) : hit.idx <= i
               /\ hit.id = freehandPaths[hit.idx].id
          ELSE hit = NoElement

\* A point within 30 px of a label, inside two rooms and on a vertex of a
\* stroke has been tested, and the label was returned.
C23_Witness ==
  /\ fnOutput # <<>>
  /\ fnOutput[1].fn = "findElementAtPoint"
  /\ LabelsAt(fnOutput[1].of) # {}
  /\ Cardinality(RoomsAt(fnOutput[1].of)) = 2
  /\ PathsAt(fnOutput[1].of) # {}
  /\ fnOutput[1].value.type = "text"


(***************************************************************************)
(* Freehand drags with pointer moves nearer than, at and beyond the        *)
(* minimum point distance from the last point of the stroke.               *)
(***************************************************************************)
DragDownPts == {Pt(50, 50)}
\* From (50,50): the same point, 4 px away, exactly 5 px away, 80 px away.
DragMovePts == {Pt(50, 50), Pt(54, 50), Pt(53, 54), Pt(130, 50)}
DragToolIds == {"freehand", "room"}

NextDrag ==
  \/ \E px \in DragDownPts, dt \in Delays : MouseDown(px, dt)
  \/ \E px \in DragMovePts : MouseMove(px)
  \/ \E dt \in Delays : MouseUp(dt)
  \/ \E id \in DragToolIds : ToolChange(id)

SpecDrag == Init /\ [][NextDrag]_vars

\* The pointer is at least 5 px from the screen position of the last point of
\* the stroke in progress.
FarFromLast(px) ==
  DistSq(getEventPoint(px), gridToScreen(currentPath[Len(currentPath)]))
    >= (MinPointDistance * SubPx) * (MinPointDistance * SubPx)

\* C24: a pointer move during a freehand drag appends its grid point to the
\* stroke in progress when it is at least 5 px from the screen position of the
\* last point of the stroke and leaves the stroke unchanged otherwise; a
\* pointer move while not drawing leaves the stroke unchanged.
C24_MoveThrottled ==
  [][\A px \in DragMovePts :
       MouseMove(px) =>
         /\ ~isDrawing => currentPath' = currentPath
         /\ (isDrawing /\ currentPath # <<>>) =>
              IF FarFromLast(px)
              THEN currentPath' = Append(currentPath, screenToGrid(getEventPoint(px)))
              ELSE currentPath' = currentPath]_vars

\* A drag has been moved by exactly 5 px, within the grid cell of its first
\* point, and the stroke got a second point equal to the first.
C24_Witness ==
  /\ isDrawing
  /\ Len(currentPath) = 2
  /\ currentPath[1] = currentPath[2]
  /\ lastOp = OtherOp
  /\ pressed


(***************************************************************************)
(* The export surface of handleExport: the bounds of the content, the      *)
(* padding, the scaling into the size limits, and the assignment of the    *)
(* result to the width and height of the canvas element, which keeps the   *)
(* whole pixels.  Lengths that are not whole are kept as fractions.        *)
(***************************************************************************)
GridPadding == 2
ExportBaseScale == 40
MinExportSize == 800
MaxExportSize == 2400
LabelHalfWidth == 2
LabelHalfHeight == 1

ContentXs ==
  UNION {{rooms[i].points[j].x : j \in DOMAIN rooms[i].points} :
           i \in {k \in DOMAIN rooms : Len(rooms[k].points) >= MinRoomPoints}}
  \cup UNION {{freehandPaths[i].points[j].x : j \in DOMAIN freehandPaths[i].points} :
                i \in {k \in DOMAIN freehandPaths : Len(freehandPaths[k].points) >= 2}}
  \cup UNION {{textLabels[i].position.x - LabelHalfWidth,
               textLabels[i].position.x + LabelHalfWidth} : i \in DOMAIN textLabels}

ContentYs ==
  UNION {{rooms[i].points[j].y : j \in DOMAIN rooms[i].points} :
           i \in {k \in DOMAIN rooms : Len(rooms[k].points) >= MinRoomPoints}}
  \cup UNION {{freehandPaths[i].points[j].y : j \in DOMAIN freehandPaths[i].points} :
                i \in {k \in DOMAIN freehandPaths : Len(freehandPaths[k].points) >= 2}}
  \cup UNION {{textLabels[i].position.y - LabelHalfHeight,
               textLabels[i].position.y + LabelHalfHeight} : i \in DOMAIN textLabels}

Least(S) == CHOOSE v \in S : \A w \in S : v <= w
Greatest(S) == CHOOSE v \in S : \A w \in S : v >= w

\* gridWidth and gridHeight: the padded bounds of the content.
exportGrid ==
  [width |-> (Greatest(ContentXs) + GridPadding) - (Least(ContentXs) - GridPadding),
   height |-> (Greatest(ContentYs) + GridPadding) - (Least(ContentYs) - GridPadding)]

\* exportWidth and exportHeight as the fractions w / d and h / d.
exportDimensions(grid) ==
  LET w0 == grid.width * ExportBaseScale
      h0 == grid.height * ExportBaseScale
      up == IF Max2(w0, h0) < MinExportSize
            THEN [w |-> w0 * MinExportSize, h |-> h0 * MinExportSize, d |-> Max2(w0, h0)]
            ELSE [w |-> w0, h |-> h0, d |-> 1]
  IN  IF Max2(up.w, up.h) > MaxExportSize * up.d
      THEN [w |-> up.w * MaxExportSize, h |-> up.h * MaxExportSize,
            d |-> Max2(up.w, up.h)]
      ELSE up

\* exportCanvas.width and exportCanvas.height after the assignment.
exportCanvas(grid) ==
  [width |-> exportDimensions(grid).w \div exportDimensions(grid).d,
   height |-> exportDimensions(grid).h \div exportDimensions(grid).d]

SurfaceShapes == {<<Pt(0, 0), Pt(2, 0), Pt(2, 5), Pt(0, 5)>>,
                  <<Pt(0, 0), Pt(20, 0), Pt(20, 10), Pt(0, 10)>>,
                  <<Pt(0, 0), Pt(70, 0), Pt(70, 30), Pt(0, 30)>>}
SurfaceStrokes == {straightenLine(<<Pt(0, 0), Pt(1, 1)>>)}
SurfaceLabelPositions == {Pt(1, 1), Pt(30, 3)}

InitSurface ==
  SceneOf(SurfaceShapes, SurfaceStrokes, SurfaceLabelPositions, {ZoomBase})

ExportSurface ==
  /\ hasContent
  /\ fnOutput' = <<[fn |-> "handleExport", of |-> exportGrid,
                    value |-> exportCanvas(exportGrid)]>>
  /\ fnFrame

NextSurface == ExportSurface

SpecSurface == InitSurface /\ [][NextSurface]_vars

\* C25: the larger dimension of the export surface is between 800 and 2400 px,
\* the surface has 40 px per grid unit when that lies in the range, and its
\* width is to its height as the width of the padded bounding box is to the
\* height of the padded bounding box.
C25_SurfaceSize ==
  \A k \in DOMAIN fnOutput :
    fnOutput[k].fn = "handleExport" =>
      LET grid == fnOutput[k].of
          surface == fnOutput[k].value
          larger == Max2(surface.width, surface.height)
          ideal == ExportBaseScale * Max2(grid.width, grid.height)
      IN  /\ larger >= MinExportSize /\ larger <= MaxExportSize
          /\ (ideal >= MinExportSize /\ ideal <= MaxExportSize) =>
               /\ surface.width = ExportBaseScale * grid.width
               /\ surface.height = ExportBaseScale * grid.height
          /\ surface.width * grid.height = surface.height * grid.width


\* C26: while the room draft is closed its vertices do not change, except
\* that the draft is emptied when it is committed or discarded; no pointer
\* down appends a vertex to a closed draft.
C26_ClosedDraftFixed ==
  [][(isRoomClosed /\ currentRoom' # currentRoom) => currentRoom' = <<>>]_vars


\* C27: every entry of the undo log names an entity that is in the collection
\* of its kind, so that an undo removes exactly one entity.
C27_LogRefersToScene ==
  \A i \in DOMAIN actionHistory :
    LET entry == actionHistory[i] IN
    /\ entry.type = "room" => \E j \in DOMAIN rooms : rooms[j].id = entry.data.id
    /\ entry.type = "freehand" =>
         \E j \in DOMAIN freehandPaths : freehandPaths[j].id = entry.data.id
    /\ entry.type = "text" =>
         \E j \in DOMAIN textLabels : textLabels[j].id = entry.data.id


(***************************************************************************)
(* The floor-plan page with wall creation, erase and Clear All.            *)
(***************************************************************************)
NextHostWalls ==
  \/ \E button \in Buttons, pos \in WallPts, dt \in Delays : FpStart(button, pos, dt)
  \/ \E pos \in WallPts : FpMove(pos)
  \/ FpEnd
  \/ \E id \in FpToolIds : FpToolChange(id)
  \/ FpClear

SpecHostWalls == Init /\ [][NextHostWalls]_vars

\* C28: the wall list of the host equals the wall collection of the canvas
\* after every wall creation, erase and Clear All.
C28_HostEqualsCanvas == appWalls = walls


\* C29: the zoom-in control never lowers the zoom and the zoom-out control
\* never raises it, in every state, those reached by a pinch included.
C29_ZoomButtonsMonotone ==
  [][/\ ZoomIn => zoom' >= zoom
     /\ ZoomOut => zoom' <= zoom]_vars


(***************************************************************************)
(* The Fabric-based EnhancedRoomCanvas: the objects on the canvas, the     *)
(* history of snapshots and the index into it.  The canvas object is an    *)
(* object kind per object; a snapshot is the sequence of objects.          *)
(***************************************************************************)
MaxObjects == 2
MaxHistory == 3
MaxPending == 2

\* saveCanvasState as made by a render with the given historyIndex, called
\* with the canvas holding the given objects: the functional updates run on
\* the state of the time of the call.
saveCanvasState(captured, state) ==
  /\ canvasHistory' = Append(SubSeq(canvasHistory, 1,
                                    Min2(captured + 1, Len(canvasHistory))),
                             state)
  /\ historyIndex' = historyIndex + 1

\* The timer of the mount effect.
fabricInitialSave ==
  /\ saveTimer
  /\ saveTimer' = FALSE
  /\ canvasHistory' = <<fabricObjects>>
  /\ historyIndex' = 0
  /\ UNCHANGED <<fabricObjects, fabricMode, pendingImages>>

\* The effect on the tool prop.
fabricSetMode(mode) ==
  /\ fabricMode' = mode
  /\ UNCHANGED <<fabricObjects, canvasHistory, historyIndex, pendingImages, saveTimer>>

\* addFurniture, called through the ref: the image starts loading, and the
\* callback of the load holds the saveCanvasState of this render.
addFurniture ==
  /\ Len(pendingImages) < MaxPending
  /\ pendingImages' = Append(pendingImages, historyIndex)
  /\ UNCHANGED <<fabricObjects, canvasHistory, historyIndex, fabricMode, saveTimer>>

\* The image of the i-th pending addFurniture has loaded.
fabricImageLoaded(i) ==
  /\ Len(fabricObjects) < MaxObjects
  /\ pendingImages' = [k \in 1..(Len(pendingImages) - 1) |->
                         IF k < i THEN pendingImages[k] ELSE pendingImages[k + 1]]
  /\ fabricObjects' = Append(fabricObjects, "image")
  /\ saveCanvasState(pendingImages[i], fabricObjects')
  /\ Len(canvasHistory') <= MaxHistory
  /\ UNCHANGED <<fabricMode, saveTimer>>

\* A stroke drawn in Fabric's drawing mode: Fabric adds the path; no handler
\* of the component is registered for it.
fabricDrawPath ==
  /\ fabricMode = "freehand"
  /\ Len(fabricObjects) < MaxObjects
  /\ fabricObjects' = Append(fabricObjects, "path")
  /\ UNCHANGED <<canvasHistory, historyIndex, fabricMode, pendingImages, saveTimer>>

\* An object is moved: the object:modified handler was registered by the
\* mount effect and calls the saveCanvasState of the first render, in which
\* fabricCanvas is null, so that it returns at once.
fabricObjectModified ==
  /\ fabricMode = "select"
  /\ fabricObjects # <<>>
  /\ fabricObjects' = [fabricObjects EXCEPT ![Len(fabricObjects)] = "moved"]
  /\ UNCHANGED <<canvasHistory, historyIndex, fabricMode, pendingImages, saveTimer>>

clearCanvas ==
  /\ fabricObjects' = <<>>
  /\ saveCanvasState(historyIndex, <<>>)
  /\ Len(canvasHistory') <= MaxHistory
  /\ UNCHANGED <<fabricMode, pendingImages, saveTimer>>

\* undo, with the load of the snapshot and the callback of the load; a
\* snapshot that does not exist is not loaded.
undo ==
  IF historyIndex > 0 /\ historyIndex <= Len(canvasHistory)
  THEN /\ fabricObjects' = canvasHistory[historyIndex]
       /\ historyIndex' = historyIndex - 1
       /\ UNCHANGED <<canvasHistory, fabricMode, pendingImages, saveTimer>>
  ELSE UNCHANGED fabricVars

fabricFrame == UNCHANGED <<roomMapVars, now, floorPlanVars, fnVars>>

FabricModes == {"freehand", "select"}

NextFabric ==
  \/ fabricInitialSave /\ fabricFrame
  \/ \E mode \in FabricModes : fabricSetMode(mode) /\ fabricFrame
  \/ addFurniture /\ fabricFrame
  \/ \E i \in DOMAIN pendingImages : fabricImageLoaded(i) /\ fabricFrame
  \/ fabricDrawPath /\ fabricFrame
  \/ fabricObjectModified /\ fabricFrame
  \/ clearCanvas /\ fabricFrame
  \/ undo /\ fabricFrame

SpecFabric == Init /\ [][NextFabric]_vars

\* C30: once the initial state is saved, historyIndex is at least 0 and at
\* most the length of canvasHistory less one, and the snapshot at historyIndex
\* is the canvas as displayed; an undo at historyIndex 0 changes nothing.
C30_IndexAtDisplayed ==
  /\ [](~saveTimer =>
          /\ 0 <= historyIndex
          /\ historyIndex <= Len(canvasHistory) - 1
          /\ canvasHistory[historyIndex + 1] = fabricObjects)
  /\ [][(undo /\ historyIndex = 0) => UNCHANGED fabricVars]_vars

====
